---- MODULE Spec2Model ----
(***************************************************************************)
(* WrappedMonero (zeroXMR) settlement ledger: LP collateral accounting,    *)
(* mint with nullifier tracking, the burn-request life cycle, the block    *)
(* and price caches, and the verification helpers the mint entry point is  *)
(* documented to apply (Merkle fold, curve membership, succinct verdict).  *)
(*                                                                         *)
(* Units.  TLC integers are 32 bits wide, so the two decimal scales of the *)
(* contract, 1e12 (PICONERO_PER_XMR) and 1e18 (prices, wei), are carried   *)
(* as 10 each, and the curve is the same twisted Edwards equation over the *)
(* field of 13 elements.  Every floor division of the contract is kept in  *)
(* the place and order the contract performs it.                           *)
(***************************************************************************)
EXTENDS Integers, Sequences, FiniteSets, TLC

\* ------------------------------------------------------------ constants
SAFE_RATIO == 150
LIQUIDATION_THRESHOLD == 120
PICONERO_PER_XMR == 10
WAD == 10
PRICE_DECIMALS == 1
MAX_PRICE_AGE == 60
BURN_TIMEOUT == 7200
MAX_FEE_BPS == 500
MIN_INTENT_DEPOSIT == 1
MINT_INTENT_TIMEOUT == 7200
MIN_MINT_BPS == 100
BPS_DENOMINATOR == 10000
P == 13
D == 2
L == 7

\* ------------------------------------------------------------ bounds
MaxTime == 14400
MaxHeight == 1
MaxBurns == 2
MaxSupply == 400
MaxCollateral == 600
MaxIntents == 2
MaxRefund == 2
MaxLeaves == 4
MaxScalar == 8

\* Block timestamps advance by one burn window at a time, so a request made
\* at time 0 is seen before, exactly at and after requestTime + BURN_TIMEOUT.
TimeStep == BURN_TIMEOUT

\* ------------------------------------------------------------ accounts
ZeroAddr == "0x0"
Self == "WrappedMonero"
Addr == {"oracle", "lp", "user"}
LPs == {"lp"}
Holders == Addr \cup {Self}

\* ------------------------------------------------------------ hashing
\* keccak256(abi.encodePacked(a, b)): an injective pairing of two words.
Hash(a, b) == ((a + b) * (a + b + 1)) \div 2 + b

\* ------------------------------------------------------------ Merkle fold
RECURSIVE MerkleFold(_, _, _)
MerkleFold(computedHash, proof, index) ==
    IF proof = << >> THEN computedHash
    ELSE MerkleFold(IF index % 2 = 0 THEN Hash(computedHash, Head(proof))
                                     ELSE Hash(Head(proof), computedHash),
                    Tail(proof), index \div 2)

\* Faulty variant of verifyMerkleProof: the fold stops one element short
\* of the end of the path.
verifyMerkleProofShort(leaf, root, proof, index) ==
    \/ MerkleFold(leaf, proof, index) = root
    \/ /\ proof # << >>
       /\ MerkleFold(leaf, SubSeq(proof, 1, Len(proof) - 1), index) = root

\* Faulty variant of verifyMerkleProof: the index has to be used up by the
\* path.
RECURSIVE verifyMerkleProofBound(_, _, _, _)
verifyMerkleProofBound(leaf, root, proof, index) ==
    IF proof = << >> THEN leaf = root /\ index = 0
    ELSE verifyMerkleProofBound(
             IF index % 2 = 0 THEN Hash(leaf, Head(proof))
                              ELSE Hash(Head(proof), leaf),
             root, Tail(proof), index \div 2)

verifyMerkleProof(leaf, root, proof, index) ==
    MerkleFold(leaf, proof, index) = root

\* ------------------------------------------------------------ curve
submod(a, b, m) == IF a >= b THEN (a - b) % m ELSE (m - ((b - a) % m)) % m

isOnCurve(x, y) ==
    LET x2 == (x * x) % P
        y2 == (y * y) % P
        lhs == submod(y2, x2, P)
        rhs == (1 + ((D * ((x2 * y2) % P)) % P)) % P
    IN lhs = rhs

verifyStealthAddress(proof) ==
    /\ isOnCurve(proof.R[1], proof.R[2])
    /\ isOnCurve(proof.S[1], proof.S[2])
    /\ isOnCurve(proof.P[1], proof.P[2])
    /\ isOnCurve(proof.B[1], proof.B[2])

\* ------------------------------------------------------------ verifier
\* IPlonkVerifier.verifyProof: an external verdict on (proof, pubSignals).
verifyProof(proof, pubSignals) == proof = "valid"

\* ------------------------------------------------------------ state
VARIABLES now, oracle, lpInfo, totalLPCollateral, balances, totalSupply,
          usedOutputs, burnRequests, nextBurnId, moneroBlocks,
          latestMoneroBlock, xmrUsdPrice, ethUsdPrice, lastPriceUpdate,
          wstBalance, ethBalance, ethSent, mintIntents, guardStatus,
          pending, call, lib

ledger == <<oracle, lpInfo, totalLPCollateral, balances, totalSupply,
            usedOutputs, burnRequests, nextBurnId, moneroBlocks,
            latestMoneroBlock, xmrUsdPrice, ethUsdPrice, lastPriceUpdate,
            wstBalance, ethBalance, ethSent, mintIntents, guardStatus,
            pending>>

vars == <<now, ledger, call, lib>>

NoLP == [collateralAmount |-> 0, backedAmount |-> 0, mintFeeBps |-> 0,
         burnFeeBps |-> 0, moneroAddress |-> "", active |-> FALSE]

NoBurn == [user |-> ZeroAddr, lp |-> ZeroAddr, amount |-> 0,
           depositAmount |-> 0, xmrAddress |-> "", requestTime |-> 0,
           collateralLocked |-> 0, fulfilled |-> FALSE, defaulted |-> FALSE]

NoIntent == [user |-> ZeroAddr, lp |-> ZeroAddr, expectedAmount |-> 0,
             depositAmount |-> 0, createdAt |-> 0, fulfilled |-> FALSE,
             cancelled |-> FALSE]

NoBlock == [blockHash |-> 0, txMerkleRoot |-> 0, outputMerkleRoot |-> 0,
            timestamp |-> 0, exists |-> FALSE]

\* ReentrancyGuard: the two values of _status, and the call that is
\* suspended in an external transfer to a receiver (none between
\* transactions).
NOT_ENTERED == "NOT_ENTERED"
ENTERED == "ENTERED"
\* `lib' holds the arguments and results of the library routine at work
\* (Merkle proofs, DLEQ proofs, scalar multiplication); the ledger leaves
\* it idle.
NoLib == [fn |-> "none"]
NoPending == [op |-> "none", to |-> ZeroAddr, a |-> [none |-> TRUE]]

BurnIds == 0 .. MaxBurns
Heights == 0 .. MaxHeight

\* ------------------------------------------------------------ prices
Pow10(n) == IF n = 0 THEN 1 ELSE IF n = 1 THEN 10 ELSE 100

normalizePythPrice(priceData) ==
    IF priceData.expo >= 0
    THEN priceData.price * Pow10(priceData.expo) * WAD
    ELSE LET adjustedExpo == PRICE_DECIMALS + priceData.expo
         IN IF adjustedExpo >= 0
            THEN priceData.price * Pow10(adjustedExpo)
            ELSE priceData.price \div Pow10(0 - adjustedExpo)

xmrToETH(piconeroAmount) ==
    LET usdValue == (piconeroAmount * xmrUsdPrice) \div PICONERO_PER_XMR
    IN (usdValue * WAD) \div ethUsdPrice

ethToXmr(ethAmount) ==
    LET usdValue == (ethAmount * ethUsdPrice) \div WAD
    IN (usdValue * PICONERO_PER_XMR) \div xmrUsdPrice

\* MockWstETH: one wstETH per stETH.
wstETHToETH(wstETHAmount) == wstETHAmount
ethToWstETH(ethAmount) == ethAmount

\* MockWstETH.totalSupply(): the wstETH in existence.
wstSupply ==
    wstBalance[Self] + wstBalance["oracle"] + wstBalance["lp"]
        + wstBalance["user"]

\* type(uint256).max, scaled: above every ratio the ledger can show.
UINT256_MAX == 1000000

getLPRatio(lp) ==
    IF lpInfo[lp].backedAmount = 0 THEN UINT256_MAX
    ELSE (wstETHToETH(lpInfo[lp].collateralAmount) * 100)
             \div xmrToETH(lpInfo[lp].backedAmount)

\* ------------------------------------------------------------ Init
LedgerInit ==
    /\ now = 0
    /\ oracle = "oracle"
    /\ lpInfo = [a \in Addr |-> NoLP]
    /\ totalLPCollateral = 0
    /\ balances = [a \in Addr |-> 0]
    /\ totalSupply = 0
    /\ usedOutputs = {}
    /\ burnRequests = [i \in BurnIds |-> NoBurn]
    /\ nextBurnId = 0
    /\ moneroBlocks = [h \in Heights |-> NoBlock]
    /\ latestMoneroBlock = 0
    /\ xmrUsdPrice = normalizePythPrice([price |-> 1, expo |-> 0])
    /\ ethUsdPrice = normalizePythPrice([price |-> 1, expo |-> 0])
    /\ lastPriceUpdate = 0
    /\ wstBalance = [a \in Holders |-> 0]
    /\ ethBalance = 0
    /\ ethSent = [a \in Addr |-> 0]
    /\ mintIntents = [i \in {} |-> NoIntent]
    /\ guardStatus = NOT_ENTERED
    /\ pending = NoPending
    /\ call = [op |-> "constructor", sender |-> "oracle"]

Init == LedgerInit /\ lib = NoLib

\* ------------------------------------------------------------ block time
AdvanceTime ==
    /\ now + TimeStep <= MaxTime
    /\ now' = now + TimeStep
    /\ call' = [op |-> "advanceTime", sender |-> ZeroAddr]
    /\ UNCHANGED <<ledger, lib>>

\* ------------------------------------------------------------ LP management
\* Every <handler>Revert operator gives the message of the first require (or
\* arithmetic panic, or failed external call) that stops the handler on the
\* given arguments in the current state, and "" when the handler runs to its
\* end.  A reverted call leaves the ledger as it was, so a handler's action
\* is enabled exactly when its Revert operator gives "".
registerLPRevert(mintFeeBps, burnFeeBps, moneroAddress) ==
    IF mintFeeBps > MAX_FEE_BPS THEN "Mint fee too high"
    ELSE IF burnFeeBps > MAX_FEE_BPS THEN "Burn fee too high"
    ELSE IF moneroAddress = "" THEN "Invalid Monero address"
    ELSE ""

registerLP(sender, mintFeeBps, burnFeeBps, moneroAddress, active) ==
    /\ registerLPRevert(mintFeeBps, burnFeeBps, moneroAddress) = ""
    /\ lpInfo' = [lpInfo EXCEPT ![sender].mintFeeBps = mintFeeBps,
                                ![sender].burnFeeBps = burnFeeBps,
                                ![sender].moneroAddress = moneroAddress,
                                ![sender].active = active]
    /\ call' = [op |-> "registerLP", sender |-> sender,
                a |-> [mintFeeBps |-> mintFeeBps, active |-> active]]
    /\ UNCHANGED <<lib, guardStatus, pending,
                   mintIntents, now, oracle, totalLPCollateral, balances, totalSupply,
                   usedOutputs, burnRequests, nextBurnId, moneroBlocks,
                   latestMoneroBlock, xmrUsdPrice, ethUsdPrice,
                   lastPriceUpdate, wstBalance, ethBalance, ethSent>>

lpDepositRevert(value) == IF value = 0 THEN "Zero amount" ELSE ""

lpDeposit(sender, value) ==
    LET wstETHReceived == value
    IN /\ wstSupply + value <= MaxCollateral
       /\ lpDepositRevert(value) = ""
       /\ wstBalance' = [wstBalance EXCEPT ![Self] = @ + wstETHReceived]
       /\ lpInfo' = [lpInfo EXCEPT
                       ![sender].collateralAmount = @ + wstETHReceived]
       /\ totalLPCollateral' = totalLPCollateral + wstETHReceived
       /\ call' = [op |-> "lpDeposit", sender |-> sender,
                   a |-> [value |-> value]]
       /\ UNCHANGED <<lib, guardStatus, pending,
                      mintIntents, now, oracle, balances, totalSupply, usedOutputs,
                      burnRequests, nextBurnId, moneroBlocks,
                      latestMoneroBlock, xmrUsdPrice, ethUsdPrice,
                      lastPriceUpdate, ethBalance, ethSent>>

lpDepositWstETHRevert(sender, wstETHAmount) ==
    IF wstETHAmount = 0 THEN "Zero amount"
    ELSE IF wstBalance[sender] < wstETHAmount THEN "ERC20: insufficient balance"
    ELSE ""

lpDepositWstETH(sender, wstETHAmount) ==
    /\ lpDepositWstETHRevert(sender, wstETHAmount) = ""
    /\ wstBalance' = [wstBalance EXCEPT ![sender] = @ - wstETHAmount,
                                        ![Self] = @ + wstETHAmount]
    /\ lpInfo' = [lpInfo EXCEPT ![sender].collateralAmount = @ + wstETHAmount]
    /\ totalLPCollateral' = totalLPCollateral + wstETHAmount
    /\ call' = [op |-> "lpDepositWstETH", sender |-> sender,
                a |-> [wstETHAmount |-> wstETHAmount]]
    /\ UNCHANGED <<lib, guardStatus, pending,
                   mintIntents, now, oracle, balances, totalSupply, usedOutputs,
                   burnRequests, nextBurnId, moneroBlocks, latestMoneroBlock,
                   xmrUsdPrice, ethUsdPrice, lastPriceUpdate, ethBalance, ethSent>>

\* Faulty variant of lpWithdrawRevert: the ratio that remains is not checked.
lpWithdrawRevertAnyRatio(sender, wstETHAmount) ==
    LET lp == lpInfo[sender]
    IN IF lp.collateralAmount < wstETHAmount THEN "Insufficient collateral"
       ELSE IF totalLPCollateral < wstETHAmount THEN "Panic: underflow"
       ELSE IF wstBalance[Self] < wstETHAmount
            THEN "ERC20: insufficient balance"
       ELSE ""

lpWithdrawRevert(sender, wstETHAmount) ==
    LET lp == lpInfo[sender]
    IN IF lp.collateralAmount < wstETHAmount THEN "Insufficient collateral"
       ELSE IF lp.backedAmount > 0 /\ xmrToETH(lp.backedAmount) = 0
            THEN "Panic: division by zero"
       ELSE IF /\ lp.backedAmount > 0
               /\ (wstETHToETH(lp.collateralAmount - wstETHAmount) * 100)
                      \div xmrToETH(lp.backedAmount) < SAFE_RATIO
            THEN "Would drop below 150%"
       ELSE IF totalLPCollateral < wstETHAmount THEN "Panic: underflow"
       ELSE IF wstBalance[Self] < wstETHAmount
            THEN "ERC20: insufficient balance"
       ELSE ""

lpWithdraw(sender, wstETHAmount) ==
    /\ lpWithdrawRevert(sender, wstETHAmount) = ""
    /\ lpInfo' = [lpInfo EXCEPT ![sender].collateralAmount = @ - wstETHAmount]
    /\ totalLPCollateral' = totalLPCollateral - wstETHAmount
    /\ wstBalance' = [wstBalance EXCEPT ![Self] = @ - wstETHAmount,
                                        ![sender] = @ + wstETHAmount]
    /\ call' = [op |-> "lpWithdraw", sender |-> sender,
                a |-> [wstETHAmount |-> wstETHAmount]]
    /\ UNCHANGED <<lib, guardStatus, pending,
                   mintIntents, now, oracle, balances, totalSupply, usedOutputs,
                   burnRequests, nextBurnId, moneroBlocks, latestMoneroBlock,
                   xmrUsdPrice, ethUsdPrice, lastPriceUpdate, ethBalance, ethSent>>

\* Faulty variant of liquidateLPRevert: an LP at or above SAFE_RATIO is
\* accepted too.
liquidateLPRevertAnyRatio(lp, value) ==
    LET lpData == lpInfo[lp]
    IN IF value = 0 THEN "Zero amount"
       ELSE IF lpData.backedAmount = 0 THEN "LP has no position"
       ELSE IF xmrToETH(lpData.backedAmount) = 0 THEN "Panic: division by zero"
       ELSE IF getLPRatio(lp) < LIQUIDATION_THRESHOLD
            THEN "Below liquidation threshold"
       ELSE ""

liquidateLPRevert(lp, value) ==
    LET lpData == lpInfo[lp]
    IN IF value = 0 THEN "Zero amount"
       ELSE IF lpData.backedAmount = 0 THEN "LP has no position"
       ELSE IF xmrToETH(lpData.backedAmount) = 0 THEN "Panic: division by zero"
       ELSE IF getLPRatio(lp) >= SAFE_RATIO THEN "LP not in risk mode"
       ELSE IF getLPRatio(lp) < LIQUIDATION_THRESHOLD
            THEN "Below liquidation threshold"
       ELSE ""

liquidateLP(sender, lp, value) ==
    LET wstETHReceived == value
    IN /\ wstSupply + value <= MaxCollateral
       /\ liquidateLPRevert(lp, value) = ""
       /\ wstBalance' = [wstBalance EXCEPT ![Self] = @ + wstETHReceived]
       /\ lpInfo' = [[lpInfo EXCEPT ![lp].collateralAmount = @ + wstETHReceived]
                        EXCEPT ![sender].collateralAmount = @ + wstETHReceived]
       /\ totalLPCollateral' = totalLPCollateral + wstETHReceived
       /\ call' = [op |-> "liquidateLP", sender |-> sender,
                   a |-> [lp |-> lp, value |-> value]]
       /\ UNCHANGED <<lib, guardStatus, pending,
                      mintIntents, now, oracle, balances, totalSupply, usedOutputs,
                      burnRequests, nextBurnId, moneroBlocks,
                      latestMoneroBlock, xmrUsdPrice, ethUsdPrice,
                      lastPriceUpdate, ethBalance, ethSent>>

\* ------------------------------------------------------------ mint intents
\* keccak256(abi.encodePacked(msg.sender, lp, expectedAmount,
\* block.timestamp)): the four words themselves, an injective encoding.
intentIdOf(sender, lp, expectedAmount, timestamp) ==
    <<sender, lp, expectedAmount, timestamp>>

\* mintIntents[intentId], a mapping: the zero record where nothing was stored.
intentAt(intentId) ==
    IF intentId \in DOMAIN mintIntents THEN mintIntents[intentId] ELSE NoIntent

getLPAvailableCapacity(lp) ==
    LET collateralValueEth == wstETHToETH(lpInfo[lp].collateralAmount)
        currentBackedValueEth == xmrToETH(lpInfo[lp].backedAmount)
        maxBackedValueEth == (collateralValueEth * 100) \div SAFE_RATIO
    IN IF maxBackedValueEth <= currentBackedValueEth THEN 0
       ELSE ethToXmr(maxBackedValueEth - currentBackedValueEth)

\* Faulty variant of minMintAmount: no minimum is asked for.
minMintAmountNone(lp) == 0

minMintAmount(lp) ==
    LET collateralValueEth == wstETHToETH(lpInfo[lp].collateralAmount)
        currentBackedValueEth == xmrToETH(lpInfo[lp].backedAmount)
        maxBackedValueEth == (collateralValueEth * 100) \div SAFE_RATIO
        availableCapacityEth ==
            IF maxBackedValueEth > currentBackedValueEth
            THEN maxBackedValueEth - currentBackedValueEth
            ELSE 0
        availableCapacityXmr == ethToXmr(availableCapacityEth)
    IN (availableCapacityXmr * MIN_MINT_BPS) \div BPS_DENOMINATOR

\* Faulty variant of createMintIntentRevert: an id already in use is
\* accepted.
createMintIntentRevertOverwrite(sender, lp, expectedAmount, value) ==
    IF ~lpInfo[lp].active THEN "LP not active"
    ELSE IF value < MIN_INTENT_DEPOSIT THEN "Deposit too small"
    ELSE IF expectedAmount < minMintAmount(lp)
         THEN "Amount below minimum (1% of LP capacity)"
    ELSE ""

createMintIntentRevert(sender, lp, expectedAmount, value) ==
    IF ~lpInfo[lp].active THEN "LP not active"
    ELSE IF value < MIN_INTENT_DEPOSIT THEN "Deposit too small"
    ELSE IF expectedAmount < minMintAmount(lp)
         THEN "Amount below minimum (1% of LP capacity)"
    ELSE IF intentAt(intentIdOf(sender, lp, expectedAmount, now)).user
                # ZeroAddr
         THEN "Intent exists"
    ELSE ""

createMintIntent(sender, lp, expectedAmount, value) ==
    LET intentId == intentIdOf(sender, lp, expectedAmount, now)
        intent == [user |-> sender, lp |-> lp,
                   expectedAmount |-> expectedAmount,
                   depositAmount |-> value, createdAt |-> now,
                   fulfilled |-> FALSE, cancelled |-> FALSE]
    IN /\ Cardinality(DOMAIN mintIntents) < MaxIntents
       /\ createMintIntentRevert(sender, lp, expectedAmount, value) = ""
       /\ mintIntents' =
             [i \in DOMAIN mintIntents \cup {intentId} |->
                 IF i = intentId THEN intent ELSE mintIntents[i]]
       /\ ethBalance' = ethBalance + value
       /\ call' = [op |-> "createMintIntent", sender |-> sender,
                   a |-> [lp |-> lp, expectedAmount |-> expectedAmount,
                          value |-> value, intentId |-> intentId]]
       /\ UNCHANGED <<lib, guardStatus, pending,
                      now, oracle, lpInfo, totalLPCollateral, balances,
                      totalSupply, usedOutputs, burnRequests, nextBurnId,
                      moneroBlocks, latestMoneroBlock, xmrUsdPrice,
                      ethUsdPrice, lastPriceUpdate, wstBalance, ethSent>>

\* Faulty variant of cancelMintIntentRevert: a cancelled intent is accepted
\* again.
cancelMintIntentRevertRecancel(sender, intentId, accepts) ==
    LET intent == intentAt(intentId)
    IN IF intent.user # sender THEN "Not your intent"
       ELSE IF intent.fulfilled THEN "Already fulfilled"
       ELSE IF now <= intent.createdAt + MINT_INTENT_TIMEOUT
            THEN "Not expired"
       ELSE IF ~accepts \/ ethBalance < intent.depositAmount
            THEN "Refund failed"
       ELSE ""

\* `accepts': whether the caller's account takes the refund.
cancelMintIntentRevert(sender, intentId, accepts) ==
    LET intent == intentAt(intentId)
    IN IF intent.user # sender THEN "Not your intent"
       ELSE IF intent.fulfilled THEN "Already fulfilled"
       ELSE IF intent.cancelled THEN "Already cancelled"
       ELSE IF now <= intent.createdAt + MINT_INTENT_TIMEOUT
            THEN "Not expired"
       ELSE IF ~accepts \/ ethBalance < intent.depositAmount
            THEN "Refund failed"
       ELSE ""

cancelMintIntent(sender, intentId, accepts) ==
    LET intent == intentAt(intentId)
    IN /\ cancelMintIntentRevert(sender, intentId, accepts) = ""
       /\ mintIntents' = [mintIntents EXCEPT ![intentId].cancelled = TRUE]
       /\ ethBalance' = ethBalance - intent.depositAmount
       /\ ethSent' = [ethSent EXCEPT ![sender] = @ + intent.depositAmount]
       /\ call' = [op |-> "cancelMintIntent", sender |-> sender,
                   a |-> [intentId |-> intentId]]
       /\ UNCHANGED <<lib, guardStatus, pending,
                      now, oracle, lpInfo, totalLPCollateral, balances,
                      totalSupply, usedOutputs, burnRequests, nextBurnId,
                      moneroBlocks, latestMoneroBlock, xmrUsdPrice,
                      ethUsdPrice, lastPriceUpdate, wstBalance>>

\* ------------------------------------------------------------ mint
\* keccak256(abi.encodePacked(output.txHash, output.outputIndex))
outputId(output) == Hash(output.txHash, output.outputIndex)

\* keccak256(abi.encodePacked(txHash, outputIndex, ecdhAmount, outputPubKey,
\* commitment)): the leaf of the output tree.
outputLeaf(output) ==
    Hash(Hash(Hash(Hash(output.txHash, output.outputIndex), output.ecdhAmount),
              output.outputPubKey), output.commitment)

verifyTxInBlock(txHash, blockHeight, merkleProof, index) ==
    /\ moneroBlocks[blockHeight].exists
    /\ verifyMerkleProof(txHash, moneroBlocks[blockHeight].txMerkleRoot,
                         merkleProof, index)

\* Faulty variant of mintRevert: the nullifier is not consulted.
mintRevertSkipsSpent(m) ==
    IF ~lpInfo[m.lp].active THEN "LP not active"
    ELSE IF ~moneroBlocks[m.blockHeight].exists THEN "Block not posted"
    ELSE ""

\* Faulty variant of mintRevert: the block cache is not consulted.
mintRevertSkipsBlock(m) ==
    IF ~lpInfo[m.lp].active THEN "LP not active"
    ELSE IF outputId(m.output) \in usedOutputs THEN "Output spent"
    ELSE ""

mintRevert(m) ==
    IF ~lpInfo[m.lp].active THEN "LP not active"
    ELSE IF ~moneroBlocks[m.blockHeight].exists THEN "Block not posted"
    ELSE IF outputId(m.output) \in usedOutputs THEN "Output spent"
    ELSE ""

\* Faulty variant of mintFee: the fee is rounded up.
mintFeeRoundedUp(v, lp) ==
    (v * lpInfo[lp].mintFeeBps + BPS_DENOMINATOR - 1) \div BPS_DENOMINATOR

mintFee(v, lp) == (v * lpInfo[lp].mintFeeBps) \div BPS_DENOMINATOR

\* Faulty variant of mint: the LP is charged with the net amount only.
mintBacksNetAmount(sender, m) ==
    LET v == m.publicSignals[1]
        fee == mintFee(v, m.lp)
        netAmount == v - fee
    IN /\ totalSupply + v <= MaxSupply
       /\ mintRevert(m) = ""
       /\ usedOutputs' = usedOutputs \cup {outputId(m.output)}
       /\ lpInfo' = [lpInfo EXCEPT ![m.lp].backedAmount = @ + netAmount]
       /\ balances' = [[balances EXCEPT ![m.recipient] = @ + netAmount]
                          EXCEPT ![m.lp] = @ + fee]
       /\ totalSupply' = totalSupply + netAmount + fee
       /\ call' = [op |-> "mint", sender |-> sender, a |-> m]
       /\ UNCHANGED <<lib, guardStatus, pending, mintIntents, now, oracle,
                      totalLPCollateral, burnRequests, nextBurnId,
                      moneroBlocks, latestMoneroBlock, xmrUsdPrice,
                      ethUsdPrice, lastPriceUpdate, wstBalance, ethBalance,
                      ethSent>>

mint(sender, m) ==
    LET v == m.publicSignals[1]
        fee == mintFee(v, m.lp)
        netAmount == v - fee
    IN /\ totalSupply + v <= MaxSupply
       /\ mintRevert(m) = ""
       /\ usedOutputs' = usedOutputs \cup {outputId(m.output)}
       /\ lpInfo' = [lpInfo EXCEPT ![m.lp].backedAmount = @ + v]
       /\ balances' = [[balances EXCEPT ![m.recipient] = @ + netAmount]
                          EXCEPT ![m.lp] = @ + fee]
       /\ totalSupply' = totalSupply + netAmount + fee
       /\ call' = [op |-> "mint", sender |-> sender, a |-> m]
       /\ UNCHANGED <<lib, guardStatus, pending,
                      mintIntents, now, oracle, totalLPCollateral, burnRequests,
                      nextBurnId, moneroBlocks, latestMoneroBlock,
                      xmrUsdPrice, ethUsdPrice, lastPriceUpdate, wstBalance,
                      ethBalance, ethSent>>

\* ------------------------------------------------------------ burn
\* Faulty variant of wstETHNeededFor: the collateral is valued at par, not at 150%.
wstETHNeededAtPar(amount) == ethToWstETH(xmrToETH(amount))

wstETHNeededFor(amount) ==
    ethToWstETH((xmrToETH(amount) * SAFE_RATIO) \div 100)

requestBurnRevert(sender, amount, lp, value) ==
    IF balances[sender] < amount THEN "Insufficient balance"
    ELSE IF value < MIN_INTENT_DEPOSIT THEN "Deposit too small"
    ELSE IF lpInfo[lp].backedAmount < amount THEN "LP cannot cover"
    ELSE IF lpInfo[lp].collateralAmount < wstETHNeededFor(amount)
         THEN "LP insufficient collateral"
    ELSE IF totalLPCollateral < wstETHNeededFor(amount) THEN "Panic: underflow"
    ELSE ""

requestBurn(sender, amount, xmrAddress, lp, value) ==
    LET wstETHNeeded == wstETHNeededFor(amount)
        burnId == nextBurnId
    IN /\ nextBurnId < MaxBurns
       /\ requestBurnRevert(sender, amount, lp, value) = ""
       /\ balances' = [balances EXCEPT ![sender] = @ - amount]
       /\ totalSupply' = totalSupply - amount
       /\ lpInfo' = [lpInfo EXCEPT ![lp].collateralAmount = @ - wstETHNeeded,
                                   ![lp].backedAmount = @ - amount]
       /\ totalLPCollateral' = totalLPCollateral - wstETHNeeded
       /\ nextBurnId' = nextBurnId + 1
       /\ burnRequests' = [burnRequests EXCEPT ![burnId] =
            [user |-> sender, lp |-> lp, amount |-> amount,
             depositAmount |-> value, xmrAddress |-> xmrAddress,
             requestTime |-> now, collateralLocked |-> wstETHNeeded,
             fulfilled |-> FALSE, defaulted |-> FALSE]]
       /\ ethBalance' = ethBalance + value
       /\ call' = [op |-> "requestBurn", sender |-> sender,
                   a |-> [amount |-> amount, lp |-> lp, value |-> value,
                          burnId |-> burnId]]
       /\ UNCHANGED <<lib, guardStatus, pending,
                      mintIntents, now, oracle, usedOutputs, moneroBlocks,
                      latestMoneroBlock, xmrUsdPrice, ethUsdPrice,
                      lastPriceUpdate, wstBalance, ethSent>>

\* Faulty variant of fulfillBurnRevert: a processed request is accepted again.
fulfillBurnRevertReprocess(sender, burnId, accepts) ==
    LET request == burnRequests[burnId]
    IN IF sender # request.lp THEN "Not the LP"
       ELSE IF now > request.requestTime + BURN_TIMEOUT THEN "Timeout"
       ELSE IF ~accepts \/ ethBalance < request.depositAmount
            THEN "Deposit refund failed"
       ELSE ""

\* Faulty variant of fulfillBurnRevert: the burn window is not enforced.
fulfillBurnRevertNoTimeout(sender, burnId, accepts) ==
    LET request == burnRequests[burnId]
    IN IF sender # request.lp THEN "Not the LP"
       ELSE IF request.fulfilled \/ request.defaulted THEN "Already processed"
       ELSE IF ~accepts \/ ethBalance < request.depositAmount
            THEN "Deposit refund failed"
       ELSE ""

\* `accepts': whether the low-level call that refunds the ETH deposit to
\* request.user succeeds (the receiver may be a contract that rejects ETH).
\* Faulty variant of fulfillBurnRevert: the window closes one instant early.
fulfillBurnRevertEarlyClose(sender, burnId, accepts) ==
    LET request == burnRequests[burnId]
    IN IF sender # request.lp THEN "Not the LP"
       ELSE IF request.fulfilled \/ request.defaulted THEN "Already processed"
       ELSE IF now >= request.requestTime + BURN_TIMEOUT THEN "Timeout"
       ELSE IF ~accepts \/ ethBalance < request.depositAmount
            THEN "Deposit refund failed"
       ELSE ""

fulfillBurnRevert(sender, burnId, accepts) ==
    LET request == burnRequests[burnId]
    IN IF sender # request.lp THEN "Not the LP"
       ELSE IF request.fulfilled \/ request.defaulted THEN "Already processed"
       ELSE IF now > request.requestTime + BURN_TIMEOUT THEN "Timeout"
       ELSE IF ~accepts \/ ethBalance < request.depositAmount
            THEN "Deposit refund failed"
       ELSE ""

\* Faulty variant of fulfillBurn: the collateral returned is recomputed from the
\* current prices instead of read from the request.
fulfillBurnRecomputed(sender, burnId, accepts) ==
    LET request == burnRequests[burnId]
        released == wstETHNeededFor(request.amount)
    IN /\ fulfillBurnRevert(sender, burnId, accepts) = ""
       /\ burnRequests' = [burnRequests EXCEPT ![burnId].fulfilled = TRUE]
       /\ lpInfo' = [lpInfo EXCEPT ![request.lp].collateralAmount = @ + released]
       /\ totalLPCollateral' = totalLPCollateral + released
       /\ ethBalance' = ethBalance - request.depositAmount
       /\ ethSent' = [ethSent EXCEPT ![request.user] = @ + request.depositAmount]
       /\ call' = [op |-> "fulfillBurn", sender |-> sender,
                   a |-> [burnId |-> burnId]]
       /\ UNCHANGED <<lib, guardStatus, pending,
                      mintIntents, now, oracle, balances, totalSupply, usedOutputs,
                      nextBurnId, moneroBlocks, latestMoneroBlock,
                      xmrUsdPrice, ethUsdPrice, lastPriceUpdate, wstBalance>>

fulfillBurn(sender, burnId, accepts) ==
    LET request == burnRequests[burnId]
    IN /\ fulfillBurnRevert(sender, burnId, accepts) = ""
       /\ burnRequests' = [burnRequests EXCEPT ![burnId].fulfilled = TRUE]
       /\ lpInfo' = [lpInfo EXCEPT ![request.lp].collateralAmount =
                                      @ + request.collateralLocked]
       /\ totalLPCollateral' = totalLPCollateral + request.collateralLocked
       /\ ethBalance' = ethBalance - request.depositAmount
       /\ ethSent' = [ethSent EXCEPT ![request.user] = @ + request.depositAmount]
       /\ call' = [op |-> "fulfillBurn", sender |-> sender,
                   a |-> [burnId |-> burnId]]
       /\ UNCHANGED <<lib, guardStatus, pending,
                      mintIntents, now, oracle, balances, totalSupply, usedOutputs,
                      nextBurnId, moneroBlocks, latestMoneroBlock,
                      xmrUsdPrice, ethUsdPrice, lastPriceUpdate, wstBalance>>

\* Faulty variant of claimDefaultRevert: the claim is accepted at the deadline itself.
claimDefaultRevertAtDeadline(sender, burnId, accepts) ==
    LET request == burnRequests[burnId]
    IN IF sender # request.user THEN "Not the user"
       ELSE IF request.fulfilled \/ request.defaulted THEN "Already processed"
       ELSE IF now < request.requestTime + BURN_TIMEOUT THEN "Not expired"
       ELSE IF wstBalance[Self] < request.collateralLocked
            THEN "ERC20: insufficient balance"
       ELSE IF ~accepts \/ ethBalance < request.depositAmount
            THEN "Deposit refund failed"
       ELSE ""

\* Faulty variant of claimDefaultRevert: a processed request is accepted
\* again.
claimDefaultRevertReclaim(sender, burnId, accepts) ==
    LET request == burnRequests[burnId]
    IN IF sender # request.user THEN "Not the user"
       ELSE IF now <= request.requestTime + BURN_TIMEOUT THEN "Not expired"
       ELSE IF wstBalance[Self] < request.collateralLocked
            THEN "ERC20: insufficient balance"
       ELSE IF ~accepts \/ ethBalance < request.depositAmount
            THEN "Deposit refund failed"
       ELSE ""

claimDefaultRevert(sender, burnId, accepts) ==
    LET request == burnRequests[burnId]
    IN IF sender # request.user THEN "Not the user"
       ELSE IF request.fulfilled \/ request.defaulted THEN "Already processed"
       ELSE IF now <= request.requestTime + BURN_TIMEOUT THEN "Not expired"
       ELSE IF wstBalance[Self] < request.collateralLocked
            THEN "ERC20: insufficient balance"
       ELSE IF ~accepts \/ ethBalance < request.depositAmount
            THEN "Deposit refund failed"
       ELSE ""

claimDefault(sender, burnId, accepts) ==
    LET request == burnRequests[burnId]
    IN /\ claimDefaultRevert(sender, burnId, accepts) = ""
       /\ burnRequests' = [burnRequests EXCEPT ![burnId].defaulted = TRUE]
       /\ wstBalance' = [wstBalance EXCEPT
                           ![Self] = @ - request.collateralLocked,
                           ![request.user] = @ + request.collateralLocked]
       /\ ethBalance' = ethBalance - request.depositAmount
       /\ ethSent' = [ethSent EXCEPT ![request.user] = @ + request.depositAmount]
       /\ call' = [op |-> "claimDefault", sender |-> sender,
                   a |-> [burnId |-> burnId]]
       /\ UNCHANGED <<lib, guardStatus, pending,
                      mintIntents, now, oracle, lpInfo, totalLPCollateral, balances,
                      totalSupply, usedOutputs, nextBurnId, moneroBlocks,
                      latestMoneroBlock, xmrUsdPrice, ethUsdPrice,
                      lastPriceUpdate>>

\* ------------------------------------------------------------ oracle
\* Faulty variant of postMoneroBlockRevert: any account may post.
postMoneroBlockRevertAnyCaller(sender, blockHeight) ==
    IF blockHeight <= latestMoneroBlock THEN "Height must increase"
    ELSE IF moneroBlocks[blockHeight].exists THEN "Block exists"
    ELSE ""

\* Faulty variant of postMoneroBlockRevert: any free height may be posted.
postMoneroBlockRevertAnyHeight(sender, blockHeight) ==
    IF sender # oracle THEN "Only oracle"
    ELSE IF moneroBlocks[blockHeight].exists THEN "Block exists"
    ELSE ""

postMoneroBlockRevert(sender, blockHeight) ==
    IF sender # oracle THEN "Only oracle"
    ELSE IF blockHeight <= latestMoneroBlock THEN "Height must increase"
    ELSE IF moneroBlocks[blockHeight].exists THEN "Block exists"
    ELSE ""

postMoneroBlock(sender, blockHeight, blockHash, txMerkleRoot, outputMerkleRoot) ==
    /\ postMoneroBlockRevert(sender, blockHeight) = ""
    /\ moneroBlocks' = [moneroBlocks EXCEPT ![blockHeight] =
         [blockHash |-> blockHash, txMerkleRoot |-> txMerkleRoot,
          outputMerkleRoot |-> outputMerkleRoot, timestamp |-> now,
          exists |-> TRUE]]
    /\ latestMoneroBlock' = blockHeight
    /\ call' = [op |-> "postMoneroBlock", sender |-> sender,
                a |-> [blockHeight |-> blockHeight]]
    /\ UNCHANGED <<lib, guardStatus, pending,
                   mintIntents, now, oracle, lpInfo, totalLPCollateral, balances,
                   totalSupply, usedOutputs, burnRequests, nextBurnId,
                   xmrUsdPrice, ethUsdPrice, lastPriceUpdate, wstBalance,
                   ethBalance, ethSent>>

transferOracleRevert(sender) == IF sender # oracle THEN "Only oracle" ELSE ""

transferOracle(sender, newOracle) ==
    /\ transferOracleRevert(sender) = ""
    /\ oracle' = newOracle
    /\ call' = [op |-> "transferOracle", sender |-> sender,
                a |-> [newOracle |-> newOracle]]
    /\ UNCHANGED <<lib, guardStatus, pending,
                   now, lpInfo, totalLPCollateral, balances, totalSupply,
                   usedOutputs, burnRequests, nextBurnId, moneroBlocks,
                   latestMoneroBlock, xmrUsdPrice, ethUsdPrice,
                   lastPriceUpdate, wstBalance, ethBalance, ethSent,
                   mintIntents>>

claimOracleYieldRevert(sender) == IF sender # oracle THEN "Only oracle" ELSE ""

claimOracleYield(sender) ==
    LET totalWstETH == wstBalance[Self]
        yieldAmount == totalWstETH - totalLPCollateral
    IN /\ claimOracleYieldRevert(sender) = ""
       /\ wstBalance' =
            IF totalWstETH > totalLPCollateral
            THEN [wstBalance EXCEPT ![Self] = @ - yieldAmount,
                                    ![oracle] = @ + yieldAmount]
            ELSE wstBalance
       /\ call' = [op |-> "claimOracleYield", sender |-> sender]
       /\ UNCHANGED <<lib, guardStatus, pending,
                      mintIntents, now, oracle, lpInfo, totalLPCollateral, balances,
                      totalSupply, usedOutputs, burnRequests, nextBurnId,
                      moneroBlocks, latestMoneroBlock, xmrUsdPrice,
                      ethUsdPrice, lastPriceUpdate, ethBalance, ethSent>>

\* ------------------------------------------------------------ price feed
\* u.value is msg.value, u.fee is pyth.getUpdateFee(priceUpdateData), u.xmr
\* and u.eth are the Pyth records [price, expo, publishTime] the update
\* delivers, u.accepts is whether the sender takes the refund of the excess.
updatePythPriceRevert(u) ==
    IF u.value < u.fee THEN "Insufficient fee"
    ELSE IF u.value > u.fee /\ ~u.accepts THEN "Refund failed"
    ELSE IF \/ now - u.xmr.publishTime > MAX_PRICE_AGE
            \/ now - u.eth.publishTime > MAX_PRICE_AGE THEN "StalePrice"
    ELSE IF ~(u.xmr.price > 0 /\ u.eth.price > 0) THEN "Invalid prices"
    ELSE ""

smooth(old, new) == IF old = 0 THEN new ELSE (old * 9 + new) \div 10

updatePythPrice(sender, u) ==
    LET newXmrPrice == normalizePythPrice(u.xmr)
        newEthPrice == normalizePythPrice(u.eth)
    IN /\ updatePythPriceRevert(u) = ""
       /\ xmrUsdPrice' = smooth(xmrUsdPrice, newXmrPrice)
       /\ ethUsdPrice' = smooth(ethUsdPrice, newEthPrice)
       /\ lastPriceUpdate' = now
       /\ ethSent' = [ethSent EXCEPT ![sender] = @ + (u.value - u.fee)]
       /\ call' = [op |-> "updatePythPrice", sender |-> sender,
                   a |-> [xmr |-> u.xmr.price, eth |-> u.eth.price]]
       /\ UNCHANGED <<lib, guardStatus, pending,
                      mintIntents, now, oracle, lpInfo, totalLPCollateral, balances,
                      totalSupply, usedOutputs, burnRequests, nextBurnId,
                      moneroBlocks, latestMoneroBlock, wstBalance, ethBalance>>

\* ------------------------------------------------------------ inputs
FeeInputs == {0, MAX_FEE_BPS - 1}
DepositAmounts == {300}
MintAmounts == {0, 200}
BurnAmounts == {200}
BurnDeposits == {0, MIN_INTENT_DEPOSIT}

\* The transactions of the relayed block and their one-output leaves.
BlockTxs == <<2, 3>>
Output(txHash) == [txHash |-> txHash, outputIndex |-> 0, ecdhAmount |-> 0,
                   outputPubKey |-> 0, commitment |-> 0]
Outputs == {Output(BlockTxs[1]), Output(BlockTxs[2])}
HonestTxRoot == Hash(BlockTxs[1], BlockTxs[2])
HonestOutputRoot == Hash(outputLeaf(Output(BlockTxs[1])),
                         outputLeaf(Output(BlockTxs[2])))
PositionOf(txHash) == IF txHash = BlockTxs[1] THEN 0 ELSE 1
SiblingOf(txHash) == IF txHash = BlockTxs[1] THEN BlockTxs[2] ELSE BlockTxs[1]

OnCurvePoint == <<2, 4>>
OffCurvePoint == <<1, 1>>
Faults == {"proof", "txPath", "outputPath", "R", "S", "P", "B"}

MintInput(lp, output, blockHeight, v, fault) ==
    [proof |-> IF fault = "proof" THEN "forged" ELSE "valid",
     publicSignals |-> <<v>>,
     ed |-> [R |-> IF fault = "R" THEN OffCurvePoint ELSE OnCurvePoint,
             S |-> IF fault = "S" THEN OffCurvePoint ELSE OnCurvePoint,
             P |-> IF fault = "P" THEN OffCurvePoint ELSE OnCurvePoint,
             B |-> IF fault = "B" THEN OffCurvePoint ELSE OnCurvePoint],
     output |-> output,
     blockHeight |-> blockHeight,
     txMerkleProof |-> IF fault = "txPath" THEN <<output.txHash>>
                       ELSE <<SiblingOf(output.txHash)>>,
     txIndex |-> PositionOf(output.txHash),
     outputMerkleProof |-> IF fault = "outputPath" THEN << >>
                           ELSE <<outputLeaf(Output(SiblingOf(output.txHash)))>>,
     outputIndex |-> PositionOf(output.txHash),
     recipient |-> "user",
     lp |-> lp]

\* The mints the ledger is driven with: honest ones of each output, and
\* variants of an honest one with a single fault or a zero amount.
MintInputs ==
    {MintInput(lp, o, h, 200, "none") :
        lp \in LPs, o \in Outputs, h \in 1 .. MaxHeight}
    \cup {MintInput("lp", Output(BlockTxs[1]), 1, 200, f) : f \in Faults}

\* Every mint call a guard is evaluated on: any account as LP, any height.
MintProbes ==
    MintInputs \cup {MintInput(lp, o, h, v, "none") :
        lp \in Addr, o \in Outputs, h \in Heights, v \in MintAmounts}

Feed(price, publishTime) ==
    [price |-> price, expo |-> 0, publishTime |-> publishTime]

\* Price updates: the fee is paid exactly, or not at all; the XMR feed is
\* fresh or too old, and its price is 0, 1 or 2 USD.
PriceInputs ==
    {[value |-> val, fee |-> 1, accepts |-> TRUE,
      xmr |-> Feed(x, now - age), eth |-> Feed(1, now)] :
        val \in {0, 1}, x \in {0, 1, 2}, age \in {0, MAX_PRICE_AGE + 1}}

\* ------------------------------------------------------------ Next
Next ==
    \/ AdvanceTime
    \/ \E s \in LPs, f \in FeeInputs, act \in BOOLEAN :
          registerLP(s, f, 0, "4A", act)
    \/ \E s \in LPs, v \in DepositAmounts : lpDeposit(s, v)
    \/ \E s \in Addr, v \in DepositAmounts : lpWithdraw(s, v)
    \/ \E m \in MintInputs : mint("user", m)
    \/ \E s \in Addr, amt \in BurnAmounts, lp \in Addr, v \in BurnDeposits :
          requestBurn(s, amt, "4B", lp, v)
    \/ \E s \in Addr, id \in BurnIds, acc \in BOOLEAN : fulfillBurn(s, id, acc)
    \/ \E s \in Addr, id \in BurnIds, acc \in BOOLEAN : claimDefault(s, id, acc)
    \/ \E s \in Addr, h \in Heights :
          postMoneroBlock(s, h, 100 + h, HonestTxRoot, HonestOutputRoot)
    \/ \E s \in Addr : claimOracleYield(s)
    \/ \E u \in PriceInputs : updatePythPrice("user", u)

Spec == Init /\ [][Next]_vars

\* ------------------------------------------------------------ IntentSpec
\* The ledger driven through mint intents, the block relay and liquidation:
\* an LP with 300 or 600 of collateral (capacity 200 or 400 at par), intents
\* below the 1% minimum and above the capacity, mints of
\* nothing and of an intent's amount, and blocks relayed at several heights.
RelayHeights == {0, 1, 2}
IntentAmounts == {1, 210}
IntentDeposits == {0, MIN_INTENT_DEPOSIT}
IntentMintAmounts == {0, 210}
TopUps == {30}
NewOracles == {"user"}
\* Who tops up: a third party, or the LP itself.
Liquidators == {"user", "lp"}

IntentMints ==
    {MintInput(lp, o, 1, v, "none") :
        lp \in LPs, o \in Outputs, v \in IntentMintAmounts}

IntentInit ==
    /\ now = 0
    /\ oracle = "oracle"
    /\ lpInfo = [a \in Addr |-> NoLP]
    /\ totalLPCollateral = 0
    /\ balances = [a \in Addr |-> 0]
    /\ totalSupply = 0
    /\ usedOutputs = {}
    /\ burnRequests = [i \in BurnIds |-> NoBurn]
    /\ nextBurnId = 0
    /\ moneroBlocks = [h \in RelayHeights |-> NoBlock]
    /\ latestMoneroBlock = 0
    /\ xmrUsdPrice = normalizePythPrice([price |-> 1, expo |-> 0])
    /\ ethUsdPrice = normalizePythPrice([price |-> 1, expo |-> 0])
    /\ lastPriceUpdate = 0
    /\ wstBalance = [a \in Holders |-> 0]
    /\ ethBalance = 0
    /\ ethSent = [a \in Addr |-> 0]
    /\ mintIntents = [i \in {} |-> NoIntent]
    /\ guardStatus = NOT_ENTERED
    /\ pending = NoPending
    /\ lib = NoLib
    /\ call = [op |-> "constructor", sender |-> "oracle"]

IntentNext ==
    \/ AdvanceTime
    \/ \E s \in LPs, act \in BOOLEAN : registerLP(s, 0, 0, "4A", act)
    \/ \E s \in LPs, v \in DepositAmounts : lpDeposit(s, v)
    \/ \E s \in {"user"}, lp \in LPs, amt \in IntentAmounts,
          v \in IntentDeposits : createMintIntent(s, lp, amt, v)
    \/ \E s \in Addr, id \in DOMAIN mintIntents, acc \in BOOLEAN :
          cancelMintIntent(s, id, acc)
    \/ \E m \in IntentMints : mint("user", m)
    \/ \E s \in Addr, h \in RelayHeights :
          postMoneroBlock(s, h, 100 + h, HonestTxRoot, HonestOutputRoot)
    \/ \E s \in Liquidators, lp \in LPs, v \in TopUps :
          liquidateLP(s, lp, v)
    \/ \E s \in Addr, o \in NewOracles : transferOracle(s, o)

IntentSpec == IntentInit /\ [][IntentNext]_vars

\* ------------------------------------------------------------ price feed
\* A second view of the ledger: only the price feed acts, and the XMR
\* feed delivers records of any exponent the Pyth structure can carry:
\* the exponent of whole units, and one so far below -PRICE_DECIMALS that
\* a price of one unit normalises to nothing.
LowExpo == 0 - (PRICE_DECIMALS + 1)

FeedAt(price, expo, publishTime) ==
    [price |-> price, expo |-> expo, publishTime |-> publishTime]

PriceFeedInputs ==
    {[value |-> val, fee |-> 1, accepts |-> TRUE,
      xmr |-> FeedAt(x, e, now - age), eth |-> Feed(1, now)] :
        val \in {0, 1}, x \in {0, 1, 2}, e \in {0, LowExpo},
        age \in {0, MAX_PRICE_AGE + 1}}

PriceNext ==
    \/ AdvanceTime
    \/ \E s \in {"user"}, u \in PriceFeedInputs : updatePythPrice(s, u)

PriceSpec == Init /\ [][PriceNext]_vars

\* ------------------------------------------------------------ reentrancy
\* A third view of the ledger, in which a handler that sends ETH to a
\* receiver is two steps: the part up to the external call, which leaves
\* the call in `pending', and the part after the call returns. Between
\* the two the receiver (pending.to) runs and may call entry points of its
\* own; an entry point marked nonReentrant is stopped there when
\* guardStatus is ENTERED.
nonReentrant == guardStatus = NOT_ENTERED

\* updatePythPrice up to and including the refund call: no guard is
\* taken and the stored prices are not yet touched.
updatePythPriceRefund(sender, u) ==
    /\ pending.op = "none"
    /\ updatePythPriceRevert(u) = ""
    /\ u.value > u.fee
    /\ ethSent[sender] + (u.value - u.fee) <= MaxRefund
    /\ ethSent' = [ethSent EXCEPT ![sender] = @ + (u.value - u.fee)]
    /\ pending' = [op |-> "updatePythPrice", to |-> sender, a |-> u]
    /\ call' = [op |-> "updatePythPrice.refund", sender |-> sender,
                a |-> [xmr |-> u.xmr.price, eth |-> u.eth.price]]
    /\ UNCHANGED <<lib, guardStatus, mintIntents, now, oracle, lpInfo,
                   totalLPCollateral, balances, totalSupply, usedOutputs,
                   burnRequests, nextBurnId, moneroBlocks, latestMoneroBlock,
                   xmrUsdPrice, ethUsdPrice, lastPriceUpdate, wstBalance,
                   ethBalance>>

\* The refund call has returned: _updatePrices().
updatePythPriceReturn ==
    /\ pending.op = "updatePythPrice"
    /\ xmrUsdPrice' = smooth(xmrUsdPrice, normalizePythPrice(pending.a.xmr))
    /\ ethUsdPrice' = smooth(ethUsdPrice, normalizePythPrice(pending.a.eth))
    /\ lastPriceUpdate' = now
    /\ pending' = NoPending
    /\ call' = [op |-> "updatePythPrice", sender |-> pending.to,
                a |-> [xmr |-> pending.a.xmr.price,
                       eth |-> pending.a.eth.price]]
    /\ UNCHANGED <<lib, guardStatus, mintIntents, now, oracle, lpInfo,
                   totalLPCollateral, balances, totalSupply, usedOutputs,
                   burnRequests, nextBurnId, moneroBlocks, latestMoneroBlock,
                   wstBalance, ethBalance, ethSent>>

\* cancelMintIntent up to and including the refund call: the guard is
\* taken and the intent is already marked cancelled.
cancelMintIntentRefund(sender, intentId) ==
    LET intent == intentAt(intentId)
    IN /\ pending.op = "none"
       /\ nonReentrant
       /\ cancelMintIntentRevert(sender, intentId, TRUE) = ""
       /\ guardStatus' = ENTERED
       /\ mintIntents' = [mintIntents EXCEPT ![intentId].cancelled = TRUE]
       /\ ethBalance' = ethBalance - intent.depositAmount
       /\ ethSent' = [ethSent EXCEPT ![sender] = @ + intent.depositAmount]
       /\ pending' = [op |-> "cancelMintIntent", to |-> sender,
                      a |-> [intentId |-> intentId]]
       /\ call' = [op |-> "cancelMintIntent.refund", sender |-> sender,
                   a |-> [intentId |-> intentId]]
       /\ UNCHANGED <<lib, now, oracle, lpInfo, totalLPCollateral, balances,
                      totalSupply, usedOutputs, burnRequests, nextBurnId,
                      moneroBlocks, latestMoneroBlock, xmrUsdPrice,
                      ethUsdPrice, lastPriceUpdate, wstBalance>>

\* The refund call has returned: the guard is released.
cancelMintIntentReturn ==
    /\ pending.op = "cancelMintIntent"
    /\ guardStatus' = NOT_ENTERED
    /\ pending' = NoPending
    /\ call' = [op |-> "cancelMintIntent", sender |-> pending.to,
                a |-> pending.a]
    /\ UNCHANGED <<lib, mintIntents, now, oracle, lpInfo, totalLPCollateral,
                   balances, totalSupply, usedOutputs, burnRequests,
                   nextBurnId, moneroBlocks, latestMoneroBlock, xmrUsdPrice,
                   ethUsdPrice, lastPriceUpdate, wstBalance, ethBalance,
                   ethSent>>

\* Updates that overpay the Pyth fee by one, so that a refund is sent.
RefundingPriceInputs ==
    {[value |-> 2, fee |-> 1, accepts |-> TRUE,
      xmr |-> Feed(x, now), eth |-> Feed(1, now)] : x \in {1, 2}}

ReentryNext ==
    \/ pending.op = "none" /\ AdvanceTime
    \/ \E s \in LPs : pending.op = "none" /\ registerLP(s, 0, 0, "4A", TRUE)
    \/ \E s \in LPs, v \in DepositAmounts :
          pending.op = "none" /\ lpDeposit(s, v)
    \/ \E s \in {"user"}, lp \in LPs, v \in IntentDeposits :
          pending.op = "none" /\ createMintIntent(s, lp, 3, v)
    \/ \E s \in {"user"}, u \in RefundingPriceInputs :
          updatePythPriceRefund(s, u)
    \/ updatePythPriceReturn
    \/ \E s \in {"user"}, id \in DOMAIN mintIntents :
          cancelMintIntentRefund(s, id)
    \/ cancelMintIntentReturn
    \/ \E act \in BOOLEAN :
          pending.op # "none" /\ registerLP(pending.to, 0, 0, "4C", act)
    \/ \E id \in DOMAIN mintIntents :
          /\ pending.op # "none"
          /\ nonReentrant
          /\ cancelMintIntent(pending.to, id, TRUE)

ReentrySpec == Init /\ [][ReentryNext]_vars

\* ------------------------------------------------------------ Merkle proofs
\* scripts/utils/compute_merkle_proof.js. Positions in a level are counted
\* from 0 as in the script; sequences are indexed from 1.
\* The next level: the hashes of the pairs from position i on, the last
\* node of an odd level paired with itself.
RECURSIVE nextLevelFrom(_, _)
nextLevelFrom(currentLevel, i) ==
    IF i >= Len(currentLevel) THEN << >>
    ELSE LET left == currentLevel[i + 1]
             right == IF i + 1 < Len(currentLevel) THEN currentLevel[i + 2]
                      ELSE left
         IN <<Hash(left, right)>> \o nextLevelFrom(currentLevel, i + 2)

\* The sibling pushed for the pair that holds currentIndex.
siblingIn(currentLevel, currentIndex) ==
    LET i == currentIndex - (currentIndex % 2)
        left == currentLevel[i + 1]
        right == IF i + 1 < Len(currentLevel) THEN currentLevel[i + 2]
                 ELSE left
    IN IF i = currentIndex THEN right ELSE left

\* Faulty variant of computeMerkleProofFromLeaves: the last node of an odd
\* level gets no sibling.
RECURSIVE computeMerkleProofFromLeavesUnpaired(_, _)
computeMerkleProofFromLeavesUnpaired(leaves, targetIndex) ==
    IF Len(leaves) <= 1 THEN << >>
    ELSE (IF targetIndex = Len(leaves) - 1 /\ targetIndex % 2 = 0
          THEN << >> ELSE <<siblingIn(leaves, targetIndex)>>)
         \o computeMerkleProofFromLeavesUnpaired(nextLevelFrom(leaves, 0),
                                                 targetIndex \div 2)

RECURSIVE computeMerkleProofFromLeaves(_, _)
computeMerkleProofFromLeaves(leaves, targetIndex) ==
    IF Len(leaves) <= 1 THEN << >>
    ELSE <<siblingIn(leaves, targetIndex)>>
         \o computeMerkleProofFromLeaves(nextLevelFrom(leaves, 0),
                                         targetIndex \div 2)

\* The single node the loop ends with.
RECURSIVE merkleRoot(_)
merkleRoot(leaves) ==
    IF Len(leaves) <= 1 THEN leaves[1]
    ELSE merkleRoot(nextLevelFrom(leaves, 0))

LeafValues == {1, 2}

LeafLists == UNION {[1 .. n -> LeafValues] : n \in 1 .. MaxLeaves}

MerkleInputs ==
    {[fn |-> "merkle", stage |-> "input", leaves |-> l, index |-> i] :
        l \in LeafLists, i \in 0 .. MaxLeaves - 1}

MerkleInit ==
    /\ LedgerInit
    /\ lib \in {m \in MerkleInputs : m.index < Len(m.leaves)}

\* The prover: the path and the root of the tree over lib.leaves.
proveMerkle ==
    /\ lib.fn = "merkle" /\ lib.stage = "input"
    /\ lib' = [fn |-> "merkle", stage |-> "proved", tampered |-> "",
               leaves |-> lib.leaves, index |-> lib.index,
               leaf |-> lib.leaves[lib.index + 1],
               root |-> merkleRoot(lib.leaves),
               proof |-> computeMerkleProofFromLeaves(lib.leaves, lib.index)]
    /\ call' = [op |-> "computeMerkleProofFromLeaves", sender |-> ZeroAddr]
    /\ UNCHANGED <<now, ledger>>

\* The values a forger puts in place of `old': a leaf value, or the next
\* number.
Replacements(old) == (LeafValues \cup {old + 1}) \ {old}

tamperLeaf ==
    /\ lib.fn = "merkle" /\ lib.stage = "proved"
    /\ \E v \in Replacements(lib.leaf) :
          lib' = [lib EXCEPT !.stage = "forged", !.tampered = "leaf",
                             !.leaf = v]
    /\ call' = [op |-> "tamperLeaf", sender |-> ZeroAddr]
    /\ UNCHANGED <<now, ledger>>

tamperRoot ==
    /\ lib.fn = "merkle" /\ lib.stage = "proved"
    /\ \E v \in Replacements(lib.root) :
          lib' = [lib EXCEPT !.stage = "forged", !.tampered = "root",
                             !.root = v]
    /\ call' = [op |-> "tamperRoot", sender |-> ZeroAddr]
    /\ UNCHANGED <<now, ledger>>

tamperProof ==
    /\ lib.fn = "merkle" /\ lib.stage = "proved"
    /\ \E j \in 1 .. Len(lib.proof) :
          \E v \in Replacements(lib.proof[j]) :
             lib' = [lib EXCEPT !.stage = "forged", !.tampered = "proof",
                                !.proof[j] = v]
    /\ call' = [op |-> "tamperProof", sender |-> ZeroAddr]
    /\ UNCHANGED <<now, ledger>>

\* The verifier of the ledger, on what the prover or the forger hands in.
checkMerkle ==
    /\ lib.fn = "merkle" /\ lib.stage \in {"proved", "forged"}
    /\ lib' = [fn |-> "merkle", stage |-> "checked",
               tampered |-> lib.tampered, leaves |-> lib.leaves,
               index |-> lib.index, leaf |-> lib.leaf, root |-> lib.root,
               proof |-> lib.proof,
               result |-> verifyMerkleProof(lib.leaf, lib.root, lib.proof,
                                            lib.index)]
    /\ call' = [op |-> "verifyMerkleProof", sender |-> ZeroAddr]
    /\ UNCHANGED <<now, ledger>>

\* The indexes a caller may hand to the verifier: those of the leaves and
\* larger ones.
ProbeIndexes == 0 .. 4 * MaxLeaves - 1

\* The verifier called with an index of the caller's choosing, lib.at, in
\* place of the position the path was computed for.
checkMerkleAt ==
    /\ lib.fn = "merkle" /\ lib.stage \in {"proved", "forged"}
    /\ \E i \in ProbeIndexes :
          lib' = [fn |-> "merkle", stage |-> "probed",
                  tampered |-> lib.tampered, leaves |-> lib.leaves,
                  index |-> lib.index, at |-> i, leaf |-> lib.leaf,
                  root |-> lib.root, proof |-> lib.proof,
                  result |-> verifyMerkleProof(lib.leaf, lib.root, lib.proof,
                                               i)]
    /\ call' = [op |-> "verifyMerkleProofAt", sender |-> ZeroAddr]
    /\ UNCHANGED <<now, ledger>>

MerkleNext ==
    \/ proveMerkle
    \/ tamperLeaf
    \/ tamperRoot
    \/ tamperProof
    \/ checkMerkle
    \/ checkMerkleAt

MerkleSpec == MerkleInit /\ [][MerkleNext]_vars

\* ------------------------------------------------------------ DLEQ proofs
\* scripts/proofGeneration/generate_dleq.js. The prime-order group of the
\* curve is written by discrete logarithms: a point is the number n of
\* n·BASE, taken modulo the group order L, so that adding points adds the
\* numbers and multiplying a point by a scalar multiplies them; two points
\* have the same coordinates exactly when their numbers are equal.
BASE == 1
GroupPoints == 0 .. L - 1

multiply(point, scalar) == (point * scalar) % L
add(point1, point2) == (point1 + point2) % L

\* keccak256 over the six points, reduced modulo L. Like the pair hash it
\* stands for a hash without accidents: the reduced value is never 0.
challengeOf(G, A, R, rA, K1, K2) ==
    1 + (Hash(Hash(Hash(G, A), Hash(R, rA)), Hash(K1, K2)) % (L - 1))

\* Faulty variant of generateDLEQProof: the response leaves the secret out.
generateDLEQProofNoSecret(r, G, A, R, rA, k) ==
    LET k_scalar == k % L
        K1 == multiply(BASE, k_scalar)
        K2 == multiply(A, k_scalar)
        c == challengeOf(G, A, R, rA, K1, K2)
    IN [c |-> c, s |-> (k_scalar + c) % L, K1 |-> K1, K2 |-> K2]

\* `k' is the value of the 32 random bytes.
generateDLEQProof(r, G, A, R, rA, k) ==
    LET k_scalar == k % L
        K1 == multiply(BASE, k_scalar)
        K2 == multiply(A, k_scalar)
        c == challengeOf(G, A, R, rA, K1, K2)
        r_bigint == r % L
        s == (k_scalar + c * r_bigint) % L
    IN [c |-> c, s |-> s, K1 |-> K1, K2 |-> K2]

\* Faulty variant of verifyDLEQProof: the challenge is not recomputed.
verifyDLEQProofAnyChallenge(proof, G, A, R, rA) ==
    /\ multiply(BASE, proof.s) = add(proof.K1, multiply(R, proof.c))
    /\ multiply(A, proof.s) = add(proof.K2, multiply(rA, proof.c))

verifyDLEQProof(proof, G, A, R, rA) ==
    LET c == proof.c
        s == proof.s
        K1 == proof.K1
        K2 == proof.K2
        lhs1 == multiply(BASE, s)
        rhs1 == add(K1, multiply(R, c))
        lhs2 == multiply(A, s)
        rhs2 == add(K2, multiply(rA, c))
        c_check == challengeOf(G, A, R, rA, K1, K2)
        eq1 == lhs1 = rhs1
        eq2 == lhs2 = rhs2
        eq3 == c = c_check
    IN eq1 /\ eq2 /\ eq3

Scalars == 0 .. MaxScalar

DleqInputs ==
    {[fn |-> "dleq", stage |-> "input", r |-> r, A |-> A, k |-> k] :
        r \in Scalars, A \in GroupPoints \ {0}, k \in Scalars}

DleqInit == LedgerInit /\ lib \in DleqInputs

\* computeEd25519Operations: R = r·G and rA = r·A, then the proof.
proveDLEQ ==
    /\ lib.fn = "dleq" /\ lib.stage = "input"
    /\ LET r_scalar == lib.r % L
           R == multiply(BASE, r_scalar)
           rA == multiply(lib.A, r_scalar)
       IN lib' = [fn |-> "dleq", stage |-> "proved", forged |-> "",
                  r |-> lib.r, A |-> lib.A, k |-> lib.k, R |-> R, rA |-> rA,
                  proof |-> generateDLEQProof(lib.r, BASE, lib.A, R, rA,
                                              lib.k)]
    /\ call' = [op |-> "generateDLEQProof", sender |-> ZeroAddr]
    /\ UNCHANGED <<now, ledger>>

\* A response computed with another secret, on the same K1, K2 and c.
forgeResponse ==
    /\ lib.fn = "dleq" /\ lib.stage = "proved"
    /\ \E r2 \in Scalars :
          /\ r2 % L # lib.r % L
          /\ lib' = [lib EXCEPT
                       !.stage = "forged", !.forged = "response",
                       !.proof.s = ((lib.k % L) + lib.proof.c * (r2 % L)) % L]
    /\ call' = [op |-> "forgeResponse", sender |-> ZeroAddr]
    /\ UNCHANGED <<now, ledger>>

\* Another challenge, with the response that fits it.
forgeChallenge ==
    /\ lib.fn = "dleq" /\ lib.stage = "proved"
    /\ \E c2 \in GroupPoints \ {lib.proof.c} :
          lib' = [lib EXCEPT
                    !.stage = "forged", !.forged = "challenge",
                    !.proof.c = c2,
                    !.proof.s = ((lib.k % L) + c2 * (lib.r % L)) % L]
    /\ call' = [op |-> "forgeChallenge", sender |-> ZeroAddr]
    /\ UNCHANGED <<now, ledger>>

\* Another second commitment, with everything else as proved.
forgeCommitment ==
    /\ lib.fn = "dleq" /\ lib.stage = "proved"
    /\ \E K \in GroupPoints \ {lib.proof.K2} :
          lib' = [lib EXCEPT !.stage = "forged", !.forged = "commitment",
                             !.proof.K2 = K]
    /\ call' = [op |-> "forgeCommitment", sender |-> ZeroAddr]
    /\ UNCHANGED <<now, ledger>>

checkDLEQ ==
    /\ lib.fn = "dleq" /\ lib.stage \in {"proved", "forged"}
    /\ lib' = [fn |-> "dleq", stage |-> "checked", forged |-> lib.forged,
               r |-> lib.r, A |-> lib.A, k |-> lib.k, R |-> lib.R,
               rA |-> lib.rA, proof |-> lib.proof,
               result |-> verifyDLEQProof(lib.proof, BASE, lib.A, lib.R,
                                          lib.rA)]
    /\ call' = [op |-> "verifyDLEQProof", sender |-> ZeroAddr]
    /\ UNCHANGED <<now, ledger>>

DleqNext ==
    \/ proveDLEQ
    \/ forgeResponse
    \/ forgeChallenge
    \/ forgeCommitment
    \/ checkDLEQ

DleqSpec == DleqInit /\ [][DleqNext]_vars

\* ------------------------------------------------------------ scalarMul
\* contracts/libraries/Ed25519.sol on the curve over F_P. Every routine
\* follows the loop of the source; scalarMul also records, in `ops', the
\* point operations it performs, in order.
RECURSIVE expmodLoop(_, _, _, _)
expmodLoop(result, base, exp, mod) ==
    IF exp = 0 THEN result
    ELSE expmodLoop(IF exp % 2 = 1 THEN (result * base) % mod ELSE result,
                    (base * base) % mod, exp \div 2, mod)

expmod(base, exp, mod) == expmodLoop(1, base % mod, exp, mod)

invmod(a, m) == expmod(a, m - 2, m)

pointAdd(x1, y1, x2, y2) ==
    LET x1y2 == (x1 * y2) % P
        y1x2 == (y1 * x2) % P
        x1x2 == (x1 * x2) % P
        y1y2 == (y1 * y2) % P
        dx1x2y1y2 == (D * ((x1x2 * y1y2) % P)) % P
        x3_num == (x1y2 + y1x2) % P
        x3_den == (1 + dx1x2y1y2) % P
        y3_num == submod(y1y2, x1x2, P)
        y3_den == submod(1, dx1x2y1y2, P)
    IN <<(x3_num * invmod(x3_den, P)) % P, (y3_num * invmod(y3_den, P)) % P>>

RECURSIVE scalarMulLoop(_, _, _, _)
scalarMulLoop(k, r, p, ops) ==
    IF k = 0 THEN [rx |-> r[1], ry |-> r[2], ops |-> ops]
    ELSE scalarMulLoop(
            k \div 2,
            IF k % 2 = 1 THEN pointAdd(r[1], r[2], p[1], p[2]) ELSE r,
            pointAdd(p[1], p[2], p[1], p[2]),
            ops \o (IF k % 2 = 1 THEN <<"add">> ELSE << >>) \o <<"double">>)

scalarMul(k, x, y) == scalarMulLoop(k, <<0, 1>>, <<x, y>>, << >>)

CurvePoints == {pt \in (0 .. P - 1) \X (0 .. P - 1) : isOnCurve(pt[1], pt[2])}

ScalarMulInputs ==
    {[fn |-> "scalarMul", stage |-> "input", k |-> k, x |-> pt[1],
      y |-> pt[2]] : k \in Scalars, pt \in CurvePoints}

ScalarMulInit == LedgerInit /\ lib \in ScalarMulInputs

runScalarMul ==
    /\ lib.fn = "scalarMul" /\ lib.stage = "input"
    /\ LET res == scalarMul(lib.k, lib.x, lib.y)
       IN lib' = [fn |-> "scalarMul", stage |-> "done", k |-> lib.k,
                  x |-> lib.x, y |-> lib.y, rx |-> res.rx, ry |-> res.ry,
                  ops |-> res.ops]
    /\ call' = [op |-> "scalarMul", sender |-> ZeroAddr]
    /\ UNCHANGED <<now, ledger>>

ScalarMulNext == runScalarMul

ScalarMulSpec == ScalarMulInit /\ [][ScalarMulNext]_vars

\* ------------------------------------------------------------ DepositSpec
\* The ledger driven through every handler that takes or returns an ETH
\* deposit: mint intents and burn requests side by side, with deposits of
\* two sizes, two burns of half the minted amount, and a price update that
\* pays its fee exactly.
EscrowDeposits == {MIN_INTENT_DEPOSIT, MIN_INTENT_DEPOSIT + 1}
EscrowIntentAmount == 3
EscrowBurnAmount == 100
ExactFeePrice ==
    [value |-> 1, fee |-> 1, accepts |-> TRUE,
     xmr |-> Feed(1, now), eth |-> Feed(1, now)]

DepositNext ==
    \/ AdvanceTime
    \/ \E s \in LPs : registerLP(s, 0, 0, "4A", TRUE)
    \/ \E s \in LPs, v \in DepositAmounts : lpDeposit(s, v)
    \/ postMoneroBlock("oracle", 1, 101, HonestTxRoot, HonestOutputRoot)
    \/ \E lp \in LPs :
          mint("user", MintInput(lp, Output(BlockTxs[1]), 1, 200, "none"))
    \/ \E lp \in LPs, v \in EscrowDeposits :
          createMintIntent("user", lp, EscrowIntentAmount, v)
    \/ \E s \in Addr, id \in DOMAIN mintIntents, acc \in BOOLEAN :
          cancelMintIntent(s, id, acc)
    \/ \E lp \in LPs, v \in EscrowDeposits :
          requestBurn("user", EscrowBurnAmount, "4B", lp, v)
    \/ \E s \in Addr, id \in BurnIds, acc \in BOOLEAN : fulfillBurn(s, id, acc)
    \/ \E s \in Addr, id \in BurnIds, acc \in BOOLEAN : claimDefault(s, id, acc)
    \/ updatePythPrice("user", ExactFeePrice)

DepositSpec == Init /\ [][DepositNext]_vars

\* ============================================================ properties
Processed(request) == request.fulfilled \/ request.defaulted
BurnProbeAmounts == {0, 1, 199, 200, 201, 400}

\* ------------------------------------------------------------ C1
C1_Replay ==
    \A m \in MintProbes :
        outputId(m.output) \in usedOutputs =>
            /\ mintRevert(m) # ""
            /\ lpInfo[m.lp].active /\ moneroBlocks[m.blockHeight].exists
                  => mintRevert(m) = "Output spent"

C1_Once ==
    /\ usedOutputs \subseteq usedOutputs'
    /\ call'.op = "mint" =>
          /\ outputId(call'.a.output) \notin usedOutputs
          /\ usedOutputs' = usedOutputs \cup {outputId(call'.a.output)}

C2_MerkleRequired ==
    call.op = "mint" =>
        /\ verifyTxInBlock(call.a.output.txHash, call.a.blockHeight,
                           call.a.txMerkleProof, call.a.txIndex)
        /\ verifyMerkleProof(outputLeaf(call.a.output),
                             moneroBlocks[call.a.blockHeight].outputMerkleRoot,
                             call.a.outputMerkleProof, call.a.outputIndex)

\* ------------------------------------------------------------ C3
\* C3: whenever a mint has succeeded, the succinct verifier accepted its
\* (proof, publicSignals).
C3_ProofRequired ==
    call.op = "mint" => verifyProof(call.a.proof, call.a.publicSignals)

\* ------------------------------------------------------------ C4
\* C4: whenever a mint has succeeded, the points R, S, P and B of its
\* Ed25519 proof are on the curve.
C4_PointsOnCurve == call.op = "mint" => verifyStealthAddress(call.a.ed)

\* ------------------------------------------------------------ C5
RatioIsSafe(lp, info) ==
    \/ info[lp].backedAmount = 0
    \/ xmrToETH(info[lp].backedAmount) = 0
    \/ (wstETHToETH(info[lp].collateralAmount) * 100)
           \div xmrToETH(info[lp].backedAmount) >= SAFE_RATIO

C5_Step ==
    (call'.op = "mint"
        /\ lpInfo'[call'.a.lp].backedAmount > lpInfo[call'.a.lp].backedAmount)
    => RatioIsSafe(call'.a.lp, lpInfo) /\ RatioIsSafe(call'.a.lp, lpInfo')

\* C5: ratio monotonicity.  A mint that increases an LP's backedAmount starts
\* from an LP at or above SAFE_RATIO and leaves it at or above SAFE_RATIO.
C5_RatioMonotone == [][C5_Step]_vars

\* ------------------------------------------------------------ C6
C6_State ==
    \A id \in BurnIds :
        /\ ~(burnRequests[id].fulfilled /\ burnRequests[id].defaulted)
        /\ Processed(burnRequests[id]) =>
              \A s \in Addr, acc \in BOOLEAN :
                  /\ fulfillBurnRevert(s, id, acc) # ""
                  /\ claimDefaultRevert(s, id, acc) # ""

C6_Step ==
    /\ \A id \in BurnIds :
          Processed(burnRequests[id]) => burnRequests'[id] = burnRequests[id]
    /\ call'.op \in {"fulfillBurn", "claimDefault"} =>
          ~Processed(burnRequests[call'.a.burnId])

\* C6: for every burn id at most one of fulfilled and defaulted is true, and
\* a request with either flag set is terminal: every fulfillBurn and every
\* claimDefault on it is rejected, whoever calls, and no step changes the
\* request; fulfillBurn and claimDefault act on Pending requests only.
C6_BurnTerminal == []C6_State /\ [][C6_Step]_vars

\* A burn has just been fulfilled and a second fulfillBurn by its LP fails.
C6_Witness ==
    /\ call.op = "fulfillBurn"
    /\ burnRequests[call.a.burnId].fulfilled
    /\ fulfillBurnRevert(call.sender, call.a.burnId, TRUE) = "Already processed"

\* ------------------------------------------------------------ C7
C7_Step ==
    /\ \A id \in BurnIds :
          id < nextBurnId =>
              /\ burnRequests'[id].collateralLocked
                    = burnRequests[id].collateralLocked
              /\ burnRequests'[id].lp = burnRequests[id].lp
              /\ burnRequests'[id].user = burnRequests[id].user
              /\ Processed(burnRequests[id]) => Processed(burnRequests'[id])
    /\ call'.op = "requestBurn" =>
          LET r == burnRequests'[call'.a.burnId]
          IN /\ ~Processed(r)
             /\ r.collateralLocked = lpInfo[r.lp].collateralAmount
                                        - lpInfo'[r.lp].collateralAmount
             /\ wstBalance' = wstBalance
    /\ call'.op = "fulfillBurn" =>
          LET r == burnRequests[call'.a.burnId]
          IN /\ ~Processed(r)
             /\ burnRequests'[call'.a.burnId].fulfilled
             /\ lpInfo' = [lpInfo EXCEPT ![r.lp].collateralAmount =
                                            @ + r.collateralLocked]
             /\ wstBalance' = wstBalance
    /\ call'.op = "claimDefault" =>
          LET r == burnRequests[call'.a.burnId]
          IN /\ ~Processed(r)
             /\ burnRequests'[call'.a.burnId].defaulted
             /\ wstBalance' = [wstBalance EXCEPT
                                 ![Self] = @ - r.collateralLocked,
                                 ![r.user] = @ + r.collateralLocked]
             /\ lpInfo' = lpInfo

\* C7: burn conservation.  requestBurn takes exactly collateralLocked from
\* the LP's collateralAmount; the recorded collateralLocked, lp and user of a
\* request never change afterwards, whatever is called in between; fulfillBurn
\* credits exactly collateralLocked back to that LP and moves no wstETH;
\* claimDefault transfers exactly collateralLocked wstETH from the contract
\* to the requester and credits no LP; either happens only on a Pending
\* request and ends its being Pending for good, so it is paid out once.
C7_BurnConservation == [][C7_Step]_vars

\* A burn has just been fulfilled after the price moved: the collateral the
\* request would lock at the current prices differs from what it locked.
C7_Witness ==
    /\ call.op = "fulfillBurn"
    /\ burnRequests[call.a.burnId].collateralLocked > 0
    /\ wstETHNeededFor(burnRequests[call.a.burnId].amount)
          # burnRequests[call.a.burnId].collateralLocked

\* ------------------------------------------------------------ C8
ValueAtSafeRatio(amount) ==
    ethToWstETH((xmrToETH(amount) * SAFE_RATIO) \div 100)

C8_Guard ==
    \A s \in Addr, amt \in BurnProbeAmounts, lp \in Addr, v \in BurnDeposits :
        requestBurnRevert(s, amt, lp, v) = "" =>
            /\ balances[s] >= amt
            /\ lpInfo[lp].collateralAmount >= ValueAtSafeRatio(amt)

C8_Step ==
    call'.op = "requestBurn" =>
        LET s == call'.sender
            amt == call'.a.amount
            lp == call'.a.lp
            id == call'.a.burnId
        IN /\ balances[s] >= amt
           /\ lpInfo[lp].collateralAmount >= ValueAtSafeRatio(amt)
           /\ balances' = [balances EXCEPT ![s] = @ - amt]
           /\ totalSupply' = totalSupply - amt
           /\ lpInfo'[lp].collateralAmount
                 = lpInfo[lp].collateralAmount - ValueAtSafeRatio(amt)
           /\ id = nextBurnId /\ nextBurnId' = nextBurnId + 1
           /\ burnRequests'[id].user = s
           /\ burnRequests'[id].lp = lp
           /\ burnRequests'[id].amount = amt
           /\ burnRequests'[id].collateralLocked = ValueAtSafeRatio(amt)
           /\ ~Processed(burnRequests'[id])

C9_Guard ==
    \A s \in Addr, id \in BurnIds, acc \in BOOLEAN :
        fulfillBurnRevert(s, id, acc) = "" =>
            /\ s = burnRequests[id].lp
            /\ ~Processed(burnRequests[id])
            /\ now <= burnRequests[id].requestTime + BURN_TIMEOUT

C9_Step ==
    call'.op = "fulfillBurn" =>
        LET id == call'.a.burnId
            r == burnRequests[id]
        IN /\ call'.sender = r.lp
           /\ ~Processed(r)
           /\ now <= r.requestTime + BURN_TIMEOUT
           /\ burnRequests' = [burnRequests EXCEPT ![id].fulfilled = TRUE]
           /\ lpInfo' = [lpInfo EXCEPT ![r.lp].collateralAmount =
                                          @ + r.collateralLocked]
           /\ ethSent' = [ethSent EXCEPT ![r.user] = @ + r.depositAmount]
           /\ ethBalance' = ethBalance - r.depositAmount

\* C9: fulfillBurn passes its requires only for the request's LP, on a
\* Pending request, at a time not after requestTime + BURN_TIMEOUT (so a
\* call by anyone else, or later, is rejected); a successful call marks the
\* request Fulfilled, adds collateralLocked to that LP's collateralAmount and
\* sends the request's deposit to the requester.
C9_FulfillBurn == []C9_Guard /\ [][C9_Step]_vars

\* A burn has just been fulfilled at the last moment of its window.
C9_Witness ==
    /\ call.op = "fulfillBurn"
    /\ burnRequests[call.a.burnId].fulfilled
    /\ now = burnRequests[call.a.burnId].requestTime + BURN_TIMEOUT

\* ------------------------------------------------------------ C10
C10_Guard ==
    \A s \in Addr, id \in BurnIds, acc \in BOOLEAN :
        claimDefaultRevert(s, id, acc) = "" =>
            /\ s = burnRequests[id].user
            /\ ~Processed(burnRequests[id])
            /\ now > burnRequests[id].requestTime + BURN_TIMEOUT

C10_Step ==
    call'.op = "claimDefault" =>
        LET id == call'.a.burnId
            r == burnRequests[id]
        IN /\ call'.sender = r.user
           /\ ~Processed(r)
           /\ now > r.requestTime + BURN_TIMEOUT
           /\ burnRequests' = [burnRequests EXCEPT ![id].defaulted = TRUE]
           /\ wstBalance' = [wstBalance EXCEPT
                               ![Self] = @ - r.collateralLocked,
                               ![r.user] = @ + r.collateralLocked]
           /\ lpInfo' = lpInfo /\ totalLPCollateral' = totalLPCollateral

\* C10: claimDefault passes its requires only for the request's user, on a
\* Pending request, at a time strictly after requestTime + BURN_TIMEOUT (so
\* a call by anyone else, or not after the deadline, is rejected); a
\* successful call marks the request Defaulted and transfers collateralLocked
\* wstETH from the contract to the requester, crediting no LP.
C10_ClaimDefault == []C10_Guard /\ [][C10_Step]_vars

\* A default has just been claimed and the requester holds the collateral.
C10_Witness ==
    /\ call.op = "claimDefault"
    /\ burnRequests[call.a.burnId].defaulted
    /\ burnRequests[call.a.burnId].collateralLocked > 0
    /\ wstBalance[call.sender] >= burnRequests[call.a.burnId].collateralLocked

\* ------------------------------------------------------------ C11
IntentMatches(intent, m) ==
    /\ intent.user = m.recipient
    /\ intent.lp = m.lp
    /\ intent.expectedAmount = m.publicSignals[1]

\* C11: an Open mint intent becomes Fulfilled by a successful mint for the
\* same user, LP and amount: right after a mint, if an intent that is not
\* cancelled matches the mint's (recipient, lp, amount), then a matching
\* intent has its fulfilled flag set.
C11_MintFulfilsIntent ==
    call.op = "mint" =>
        ((\E id \in DOMAIN mintIntents :
              IntentMatches(mintIntents[id], call.a)
                  /\ ~mintIntents[id].cancelled)
         => \E id \in DOMAIN mintIntents :
                IntentMatches(mintIntents[id], call.a)
                    /\ mintIntents[id].fulfilled)

\* ------------------------------------------------------------ C12
IntentProbeIds ==
    DOMAIN mintIntents
        \cup {intentIdOf(u, lp, amt, t) :
                 u \in Addr, lp \in LPs, amt \in IntentAmounts,
                 t \in {0, TimeStep, 2 * TimeStep}}

C12_Guard ==
    \A s \in Addr, id \in IntentProbeIds, acc \in BOOLEAN :
        cancelMintIntentRevert(s, id, acc) = "" =>
            /\ id \in DOMAIN mintIntents
            /\ s = intentAt(id).user
            /\ ~intentAt(id).fulfilled
            /\ ~intentAt(id).cancelled
            /\ now > intentAt(id).createdAt + MINT_INTENT_TIMEOUT

C12_Step ==
    /\ \A id \in DOMAIN mintIntents :
          mintIntents[id].cancelled =>
              id \in DOMAIN mintIntents' /\ mintIntents'[id].cancelled
    /\ call'.op = "cancelMintIntent" =>
          LET id == call'.a.intentId
              intent == intentAt(id)
          IN /\ call'.sender = intent.user
             /\ ~intent.fulfilled /\ ~intent.cancelled
             /\ now > intent.createdAt + MINT_INTENT_TIMEOUT
             /\ mintIntents' = [mintIntents EXCEPT ![id].cancelled = TRUE]
             /\ ethSent' = [ethSent EXCEPT
                              ![intent.user] = @ + intent.depositAmount]
             /\ ethBalance' = ethBalance - intent.depositAmount

\* C12: cancelMintIntent passes its requires only for the intent's creator,
\* on an intent neither fulfilled nor cancelled, strictly after createdAt +
\* MINT_INTENT_TIMEOUT; a successful call marks the intent cancelled and
\* sends exactly its depositAmount to the creator; a cancelled intent stays
\* cancelled, so a second cancel is rejected and the deposit is refunded at
\* most once.
C12_CancelMintIntent == []C12_Guard /\ [][C12_Step]_vars

\* An intent has just been cancelled, its deposit refunded, and a second
\* cancel by its creator fails.
C12_Witness ==
    /\ call.op = "cancelMintIntent"
    /\ mintIntents[call.a.intentId].cancelled
    /\ mintIntents[call.a.intentId].depositAmount > 0
    /\ ethSent[call.sender] >= mintIntents[call.a.intentId].depositAmount
    /\ cancelMintIntentRevert(call.sender, call.a.intentId, TRUE)
          = "Already cancelled"

\* ------------------------------------------------------------ C13
\* C13: capacity pre-check at intent creation.  An accepted createMintIntent
\* has an expectedAmount within the LP's available capacity at SAFE_RATIO
\* (creating an intent changes neither collateral nor backed amount, so the
\* capacity is the same before and after the call).  With 300 of collateral
\* at par the capacity is 200, which an intent for 210 exceeds.
C13_CapacityPreCheck ==
    call.op = "createMintIntent" =>
        call.a.expectedAmount <= getLPAvailableCapacity(call.a.lp)

\* ------------------------------------------------------------ C14
IntentProbeAmounts == IntentAmounts \cup {0, 2, 3, 4, 5, 180}

OnePercentOfCapacity(lp) ==
    (getLPAvailableCapacity(lp) * MIN_MINT_BPS) \div BPS_DENOMINATOR

C14_Guard ==
    \A s \in Addr, lp \in Addr, amt \in IntentProbeAmounts,
       v \in IntentDeposits :
        createMintIntentRevert(s, lp, amt, v) = "" =>
            /\ lpInfo[lp].active
            /\ v >= MIN_INTENT_DEPOSIT
            /\ amt >= OnePercentOfCapacity(lp)

C14_Step ==
    /\ DOMAIN mintIntents' # DOMAIN mintIntents =>
          call'.op = "createMintIntent"
    /\ call'.op = "createMintIntent" =>
          LET id == call'.a.intentId
              lp == call'.a.lp
          IN /\ lpInfo[lp].active
             /\ call'.a.value >= MIN_INTENT_DEPOSIT
             /\ call'.a.expectedAmount >= OnePercentOfCapacity(lp)
             /\ id \notin DOMAIN mintIntents
             /\ DOMAIN mintIntents' = DOMAIN mintIntents \cup {id}
             /\ mintIntents'[id] =
                   [user |-> call'.sender, lp |-> lp,
                    expectedAmount |-> call'.a.expectedAmount,
                    depositAmount |-> call'.a.value, createdAt |-> now,
                    fulfilled |-> FALSE, cancelled |-> FALSE]
             /\ \A i \in DOMAIN mintIntents : mintIntents'[i] = mintIntents[i]
             /\ ethBalance' = ethBalance + call'.a.value

\* C14: createMintIntent passes its requires only if the LP is active, the
\* attached deposit is at least MIN_INTENT_DEPOSIT and expectedAmount is at
\* least MIN_MINT_BPS / 10000 of the LP's available capacity (the capacity
\* view: max(0, collateral value * 100 / SAFE_RATIO - backed value) in XMR);
\* an accepted call records exactly one new Open intent holding the deposit,
\* and an intent is recorded by no other step.
C14_CreateMintIntent == []C14_Guard /\ [][C14_Step]_vars

\* An intent has just been accepted against an LP whose 1% minimum is above
\* zero, and the same call for one unit less than the minimum is rejected.
C14_Witness ==
    /\ call.op = "createMintIntent"
    /\ OnePercentOfCapacity(call.a.lp) > 0
    /\ createMintIntentRevert(call.sender, call.a.lp,
                              OnePercentOfCapacity(call.a.lp) - 1,
                              MIN_INTENT_DEPOSIT)
          = "Amount below minimum (1% of LP capacity)"

\* ------------------------------------------------------------ C15
FloorFee(v, bps) == (v * bps) \div 10000

C15_Step ==
    /\ call'.op # "mint" =>
          /\ usedOutputs' = usedOutputs
          /\ totalSupply' <= totalSupply
          /\ \A a \in Addr : lpInfo'[a].backedAmount <= lpInfo[a].backedAmount
    /\ call'.op = "mint" =>
          LET m == call'.a
              v == m.publicSignals[1]
              fee == FloorFee(v, lpInfo[m.lp].mintFeeBps)
          IN /\ outputId(m.output) \notin usedOutputs
             /\ usedOutputs' = usedOutputs \cup {outputId(m.output)}
             /\ lpInfo' = [lpInfo EXCEPT ![m.lp].backedAmount = @ + v]
             /\ balances' = [a \in Addr |->
                   balances[a] + (IF a = m.recipient THEN v - fee ELSE 0)
                               + (IF a = m.lp THEN fee ELSE 0)]
             /\ totalSupply' = totalSupply + v

\* C15: a successful mint of v = publicSignals[0] against an LP with rate
\* mintFeeBps inserts the nullifier, raises that LP's backedAmount by exactly
\* v, credits v - fee to the recipient and fee to the LP with
\* fee = floor(v * mintFeeBps / 10000), and so raises the total supply by
\* exactly v, all in the one step; no other step inserts a nullifier, raises
\* a backedAmount or raises the total supply.
C15_MintEffects == [][C15_Step]_vars

\* A mint has just paid a fee that the floor made smaller than the exact
\* fraction.
C15_Witness ==
    /\ call.op = "mint"
    /\ balances[call.a.lp] > 0
    /\ balances[call.a.lp] * 10000
          < call.a.publicSignals[1] * lpInfo[call.a.lp].mintFeeBps
    /\ balances[call.a.recipient] + balances[call.a.lp]
          = call.a.publicSignals[1]

\* ------------------------------------------------------------ C16
C16_Guard ==
    \A m \in MintProbes :
        /\ ~lpInfo[m.lp].active => mintRevert(m) = "LP not active"
        /\ lpInfo[m.lp].active /\ ~moneroBlocks[m.blockHeight].exists
              => mintRevert(m) = "Block not posted"

C16_Step ==
    /\ call'.op = "mint" =>
          /\ lpInfo[call'.a.lp].active
          /\ moneroBlocks[call'.a.blockHeight].exists
    /\ call'.op = "postMoneroBlock" =>
          \A m \in MintProbes :
              (mintRevert(m) = "Block not posted"
                  /\ m.blockHeight = call'.a.blockHeight
                  /\ outputId(m.output) \notin usedOutputs)
              => mintRevert(m)' = ""

\* C16: a mint naming an LP that is not active, or a height with no posted
\* block, is rejected ("LP not active", "Block not posted"), so it inserts
\* no nullifier and changes nothing; every mint that happens names an active
\* LP and a posted block; and a mint rejected only for the missing block
\* passes its requires as soon as the block at its height is posted.
C16_MintPreconditions == []C16_Guard /\ [][C16_Step]_vars

\* The block has just been posted, and a mint that was rejected for the
\* missing block is accepted now.
C16_Witness ==
    /\ call.op = "postMoneroBlock"
    /\ \E m \in MintInputs :
          /\ m.blockHeight = call.a.blockHeight
          /\ moneroBlocks[m.blockHeight].timestamp = now
          /\ mintRevert(m) = ""

\* ------------------------------------------------------------ C17
\* C17: mint rejects an amount below the configured minimum; whatever the
\* minimum is, it excludes zero, so every mint that succeeds (and consumes a
\* nullifier) has publicSignals[0] > 0.
C17_MinimumMintAmount ==
    call.op = "mint" => call.a.publicSignals[1] > 0

\* ------------------------------------------------------------ C18
C18_Guard ==
    \A s \in Addr, h \in RelayHeights :
        postMoneroBlockRevert(s, h) = "" =>
            /\ s = oracle
            /\ h > latestMoneroBlock
            /\ ~moneroBlocks[h].exists

C18_Step ==
    /\ latestMoneroBlock' # latestMoneroBlock =>
          call'.op = "postMoneroBlock" /\ latestMoneroBlock' > latestMoneroBlock
    /\ call'.op = "postMoneroBlock" =>
          /\ call'.sender = oracle
          /\ call'.a.blockHeight > latestMoneroBlock
          /\ ~moneroBlocks[call'.a.blockHeight].exists
          /\ moneroBlocks'[call'.a.blockHeight].exists
          /\ latestMoneroBlock' = call'.a.blockHeight

\* C18: postMoneroBlock passes its requires only for the current oracle and
\* only for a height strictly above latestMoneroBlock (so a post at a posted
\* or lower height, or by any other caller, a former oracle included, is
\* rejected); a successful post makes latestMoneroBlock the posted height,
\* and latestMoneroBlock changes in no other way, so the accepted heights
\* are strictly increasing.
C18_PostMoneroBlock == []C18_Guard /\ [][C18_Step]_vars

\* A second block has just been posted above the first one; posting it
\* again, or posting the lower height, is rejected even for the oracle.
C18_Witness ==
    /\ call.op = "postMoneroBlock"
    /\ call.a.blockHeight = 2
    /\ moneroBlocks[1].exists
    /\ postMoneroBlockRevert(oracle, 2) = "Height must increase"
    /\ postMoneroBlockRevert(oracle, 1) = "Height must increase"

\* ------------------------------------------------------------ C19
C19_State ==
    \A h \in RelayHeights : moneroBlocks[h].exists => h <= latestMoneroBlock

C19_Step ==
    /\ \A h \in RelayHeights :
          moneroBlocks[h].exists => moneroBlocks'[h] = moneroBlocks[h]
    /\ moneroBlocks' # moneroBlocks => call'.op = "postMoneroBlock"

\* C19: the block cache is append-only.  A record that exists keeps its
\* blockHash, txMerkleRoot, outputMerkleRoot and timestamp and keeps
\* existing, whatever is called; every existing record is at a height at
\* most latestMoneroBlock; and only postMoneroBlock writes the cache.
C19_BlockCacheAppendOnly == []C19_State /\ [][C19_Step]_vars

\* Two blocks have been posted at different times and a mint has just run:
\* both records are still there as posted.
C19_Witness ==
    /\ call.op = "mint"
    /\ moneroBlocks[1].exists /\ moneroBlocks[2].exists
    /\ moneroBlocks[1].blockHash = 101 /\ moneroBlocks[2].blockHash = 102
    /\ moneroBlocks[1].timestamp < moneroBlocks[2].timestamp
    /\ latestMoneroBlock = 2

\* ------------------------------------------------------------ C20
\* C20: an LP with a position (backedAmount > 0) whose collateral ratio is
\* below LIQUIDATION_THRESHOLD can be liquidated by any account: liquidateLP
\* with a non-zero payment on it passes its requires.
C20_LiquidatableBelowThreshold ==
    \A lp \in LPs, v \in TopUps :
        (lpInfo[lp].backedAmount > 0
            /\ xmrToETH(lpInfo[lp].backedAmount) > 0
            /\ getLPRatio(lp) < LIQUIDATION_THRESHOLD)
        => liquidateLPRevert(lp, v) = ""

\* ---------------------------------------------------------------- C21
WithdrawProbeAmounts == {0, 1, 300, 301, 600}

\* The ratio an LP would have after taking wstETHAmount out.
RatioAfterWithdraw(lp, wstETHAmount) ==
    (wstETHToETH(lpInfo[lp].collateralAmount - wstETHAmount) * 100)
        \div xmrToETH(lpInfo[lp].backedAmount)

C21_Guard ==
    \A s \in Addr, v \in WithdrawProbeAmounts :
        /\ lpInfo[s].collateralAmount < v => lpWithdrawRevert(s, v) # ""
        /\ ( /\ lpInfo[s].collateralAmount >= v
             /\ lpInfo[s].backedAmount > 0
             /\ xmrToETH(lpInfo[s].backedAmount) > 0
             /\ RatioAfterWithdraw(s, v) < SAFE_RATIO )
               => lpWithdrawRevert(s, v) # ""
        /\ ( /\ lpInfo[s].backedAmount > 0
             /\ xmrToETH(lpInfo[s].backedAmount) > 0
             /\ getLPRatio(s) < SAFE_RATIO )
               => lpWithdrawRevert(s, v) # ""

C21_Step ==
    \A s \in Addr :
        ( /\ call'.op = "lpWithdraw"
          /\ call'.sender = s
          /\ lpInfo[s].backedAmount > 0 )
            => /\ lpInfo'[s].backedAmount = lpInfo[s].backedAmount
               /\ getLPRatio(s)' >= SAFE_RATIO

\* C21: a withdrawal that exceeds the LP's collateral, or that would leave
\* an LP who backs tokens under SAFE_RATIO, is rejected, so an LP who is
\* already under SAFE_RATIO cannot withdraw at all; after every lpWithdraw
\* by an LP who backs tokens the LP's ratio is at least SAFE_RATIO.
C21_WithdrawKeepsSafeRatio == []C21_Guard /\ [][C21_Step]_vars

\* An LP who backs tokens has withdrawn down to exactly SAFE_RATIO.
C21_Witness ==
    /\ call.op = "lpWithdraw"
    /\ lpInfo[call.sender].backedAmount > 0
    /\ getLPRatio(call.sender) = SAFE_RATIO

\* ---------------------------------------------------------------- C22
\* The entry points whose outcome is computed from the stored price pair.
\* None of them changes the block time or lastPriceUpdate, so the state
\* after the call shows the age of the prices the call has used.
PriceDependentOps == {"createMintIntent", "lpWithdraw", "liquidateLP",
                      "requestBurn"}

\* C22: a price-dependent operation is rejected when the stored prices are
\* older than MAX_PRICE_AGE or when one of them is zero, so every such
\* operation that has been carried out has used fresh, non-zero prices.
C22_StalePricesRejected ==
    call.op \in PriceDependentOps
        => /\ now - lastPriceUpdate <= MAX_PRICE_AGE
           /\ xmrUsdPrice > 0
           /\ ethUsdPrice > 0

\* ---------------------------------------------------------------- C23
\* C23: an update with a fresh price that is not positive is rejected and
\* an accepted one smooths 90/10, so after construction and any sequence
\* of updates both stored prices are strictly positive.
C23_StoredPricesPositive == xmrUsdPrice > 0 /\ ethUsdPrice > 0

\* ---------------------------------------------------------------- C24
\* The storage of the ledger.
storage == <<oracle, lpInfo, totalLPCollateral, balances, totalSupply,
             usedOutputs, burnRequests, nextBurnId, moneroBlocks,
             latestMoneroBlock, xmrUsdPrice, ethUsdPrice, lastPriceUpdate,
             mintIntents>>

\* C24: when a handler makes its external transfer all of its state is
\* final and no entry point can be entered from the receiver's callback,
\* so from the transfer until the handler has returned nothing changes
\* the storage of the ledger.
C24_ReentrancyExclusion ==
    [][pending.op # "none" => UNCHANGED storage]_vars

\* ---------------------------------------------------------------- C25
\* C25: for every list of leaves and every position in it, the path that
\* computeMerkleProofFromLeaves gives, with the root of the same tree, is
\* accepted by verifyMerkleProof for the leaf at that position.
C25_MerkleCompleteness ==
    (lib.fn = "merkle" /\ lib.stage = "checked" /\ lib.tampered = "")
        => lib.result

\* The last leaf of a list of three, which is paired with itself.
C25_Witness ==
    /\ lib.fn = "merkle" /\ lib.stage = "checked" /\ lib.tampered = ""
    /\ Len(lib.leaves) = 3 /\ lib.index = 2
    /\ lib.proof[1] = lib.leaf
    /\ lib.result

\* ---------------------------------------------------------------- C26
\* C26: a valid proof in which the leaf, the root or one element of the
\* path has been replaced by a different value is not accepted.
C26_MerkleSoundness ==
    (lib.fn = "merkle" /\ lib.stage = "checked" /\ lib.tampered # "")
        => ~lib.result

\* An element of a path of two has been replaced and the proof refused.
C26_Witness ==
    /\ lib.fn = "merkle" /\ lib.stage = "checked"
    /\ lib.tampered = "proof" /\ Len(lib.proof) = 2
    /\ ~lib.result

\* ---------------------------------------------------------------- C27
\* C27: for every secret r, point A and nonce k, the proof that
\* generateDLEQProof makes for R = r·G and rA = r·A is accepted by
\* verifyDLEQProof.
C27_DleqCompleteness ==
    (lib.fn = "dleq" /\ lib.stage = "checked" /\ lib.forged = "")
        => lib.result

\* A proof with a secret and a nonce that are reduced modulo L, and a
\* response that wraps around, has been accepted.
C27_Witness ==
    /\ lib.fn = "dleq" /\ lib.stage = "checked" /\ lib.forged = ""
    /\ lib.r > L /\ lib.k > L /\ lib.A # BASE
    /\ (lib.k % L) + lib.proof.c * (lib.r % L) >= L
    /\ lib.result

C29_ConstantShape ==
    (lib.fn = "scalarMul" /\ lib.stage = "done")
        => \A k2 \in Scalars : scalarMul(k2, lib.x, lib.y).ops = lib.ops

\* ---------------------------------------------------------------- C30
TopUpProbes == {0, 1, 30}

\* The LP backs tokens and its ratio is in the band
\* [LIQUIDATION_THRESHOLD, SAFE_RATIO).
InRiskBand(lp) ==
    /\ lpInfo[lp].backedAmount > 0
    /\ xmrToETH(lpInfo[lp].backedAmount) > 0
    /\ getLPRatio(lp) >= LIQUIDATION_THRESHOLD
    /\ getLPRatio(lp) < SAFE_RATIO

C30_Guard ==
    \A lp \in Addr, v \in TopUpProbes :
        /\ liquidateLPRevert(lp, v) = "" <=> (v > 0 /\ InRiskBand(lp))
        /\ ( /\ v > 0
             /\ lpInfo[lp].backedAmount > 0
             /\ xmrToETH(lpInfo[lp].backedAmount) > 0
             /\ getLPRatio(lp) >= SAFE_RATIO )
               => liquidateLPRevert(lp, v) = "LP not in risk mode"

C30_Step ==
    \A s \in Addr, lp \in Addr :
        ( /\ call'.op = "liquidateLP"
          /\ call'.sender = s
          /\ call'.a.lp = lp )
            => LET received == wstBalance'[Self] - wstBalance[Self]
               IN /\ received = call'.a.value
                  /\ lpInfo' =
                        [[lpInfo EXCEPT ![lp].collateralAmount = @ + received]
                            EXCEPT ![s].collateralAmount = @ + received]

RECURSIVE SumOf(_, _)
SumOf(f, S) ==
    IF S = {} THEN 0
    ELSE LET x == CHOOSE y \in S : TRUE IN f[x] + SumOf(f, S \ {x})

\* A burn request that exists and is neither fulfilled nor defaulted.
Pending(id) == id < nextBurnId /\ ~Processed(burnRequests[id])

\* The collateral credited to all accounts, and the collateral locked for
\* the Pending burn requests.
collateralOfAll == SumOf([a \in Addr |-> lpInfo[a].collateralAmount], Addr)

lockedForPending ==
    SumOf([id \in BurnIds |-> IF Pending(id)
                               THEN burnRequests[id].collateralLocked
                               ELSE 0], BurnIds)

\* C31: claimOracleYield pays out yield only, so after it the contract
\* still holds the collateral of every LP and the collateral locked for
\* every Pending burn request.
C31_YieldLeavesCollateral ==
    call.op = "claimOracleYield"
        => wstBalance[Self] >= collateralOfAll + lockedForPending

\* ---------------------------------------------------------------- C32
backedByAll == SumOf([a \in Addr |-> lpInfo[a].backedAmount], Addr)

heldByAll == SumOf([a \in Addr |-> balances[a]], Addr)

\* C32: in every reachable state the total supply of the token equals the
\* sum of backedAmount over all LPs (and the sum of all balances).
C32_SupplyIsBacked ==
    /\ totalSupply = backedByAll
    /\ totalSupply = heldByAll

\* Tokens were minted with a fee for the LP, a part of them was burned and
\* a part is still in circulation.
C32_Witness ==
    /\ call.op = "requestBurn"
    /\ totalSupply > 0
    /\ balances["lp"] > 0
    /\ backedByAll = totalSupply

\* ---------------------------------------------------------------- C33
\* C33: in every reachable state totalLPCollateral equals the sum of
\* collateralAmount over all accounts.
C33_CollateralAccounting == totalLPCollateral = collateralOfAll

\* ---------------------------------------------------------------- C34
\* C34: in every reachable state the wstETH held by the contract covers
\* the collateralAmount of all accounts and the collateralLocked of all
\* Pending burn requests.
C34_CollateralSolvency ==
    wstBalance[Self] >= collateralOfAll + lockedForPending

\* ---------------------------------------------------------------- C35
\* C35: a Pending burn request can always be resolved: once its timeout
\* has elapsed, claimDefault by the requester (who takes the refund) is
\* enabled.
C35_DefaultClaimable ==
    \A id \in BurnIds :
        (Pending(id) /\ now > burnRequests[id].requestTime + BURN_TIMEOUT)
            => claimDefaultRevert(burnRequests[id].user, id, TRUE) = ""

\* ---------------------------------------------------------------- C36
\* The time guard of fulfillBurn, and that of claimDefault, lets the call
\* of the right account on request `id' pass at the current block time.
FulfilGuardOpen(id) ==
    fulfillBurnRevert(burnRequests[id].lp, id, TRUE) # "Timeout"

DefaultGuardOpen(id) ==
    claimDefaultRevert(burnRequests[id].user, id, TRUE) # "Not expired"

\* C36: for a Pending request exactly one of the two time guards is open
\* at any block time, and at requestTime + BURN_TIMEOUT it is the one of
\* fulfillBurn.
C36_WindowPartition ==
    \A id \in BurnIds :
        Pending(id)
            => /\ FulfilGuardOpen(id) # DefaultGuardOpen(id)
               /\ FulfilGuardOpen(id)
                     <=> now <= burnRequests[id].requestTime + BURN_TIMEOUT
               /\ now = burnRequests[id].requestTime + BURN_TIMEOUT
                     => FulfilGuardOpen(id) /\ ~DefaultGuardOpen(id)

\* A Pending request at the last instant of its window: the LP can still
\* fulfil it, the requester cannot yet claim.
C36_Witness ==
    \E id \in BurnIds :
        /\ Pending(id)
        /\ now = burnRequests[id].requestTime + BURN_TIMEOUT
        /\ fulfillBurnRevert(burnRequests[id].lp, id, TRUE) = ""
        /\ claimDefaultRevert(burnRequests[id].user, id, TRUE) = "Not expired"

\* ---------------------------------------------------------------- C37
\* The deposits the contract owes: those of the intents not cancelled and
\* of the Pending burn requests.
intentDepositsHeld ==
    SumOf([id \in DOMAIN mintIntents |->
              IF mintIntents[id].cancelled THEN 0
              ELSE mintIntents[id].depositAmount], DOMAIN mintIntents)

burnDepositsHeld ==
    SumOf([id \in BurnIds |->
              IF Pending(id) THEN burnRequests[id].depositAmount ELSE 0],
          BurnIds)

C37_Covered == ethBalance >= intentDepositsHeld + burnDepositsHeld

C37_Step ==
    \* a recorded deposit keeps its amount and its owner, and a deposit
    \* once paid out stays paid out
    /\ \A id \in DOMAIN mintIntents :
          /\ id \in DOMAIN mintIntents'
          /\ mintIntents'[id].depositAmount = mintIntents[id].depositAmount
          /\ mintIntents'[id].user = mintIntents[id].user
          /\ mintIntents[id].cancelled => mintIntents'[id].cancelled
    /\ \A id \in BurnIds :
          id < nextBurnId =>
              /\ id < nextBurnId'
              /\ burnRequests'[id].depositAmount
                    = burnRequests[id].depositAmount
              /\ burnRequests'[id].user = burnRequests[id].user
              /\ Processed(burnRequests[id]) => Processed(burnRequests'[id])
    \* ETH leaves the contract only as the payout of one deposit that was
    \* still held, to the account that posted it, for the amount posted
    /\ (ethSent' # ethSent \/ ethBalance' < ethBalance) =>
          \/ \E id \in DOMAIN mintIntents :
                /\ call'.op = "cancelMintIntent" /\ call'.a.intentId = id
                /\ ~mintIntents[id].cancelled /\ mintIntents'[id].cancelled
                /\ ethSent' = [ethSent EXCEPT ![mintIntents[id].user] =
                                                 @ + mintIntents[id].depositAmount]
                /\ ethBalance' = ethBalance - mintIntents[id].depositAmount
          \/ \E id \in BurnIds :
                /\ call'.op \in {"fulfillBurn", "claimDefault"}
                /\ call'.a.burnId = id
                /\ Pending(id) /\ Processed(burnRequests'[id])
                /\ ethSent' = [ethSent EXCEPT ![burnRequests[id].user] =
                                                 @ + burnRequests[id].depositAmount]
                /\ ethBalance' = ethBalance - burnRequests[id].depositAmount

\* C37: every intent deposit and burn deposit is paid out at most once, by
\* cancelMintIntent, fulfillBurn or claimDefault, to the account that
\* posted it and for the amount posted, and the contract's ETH balance
\* always covers the deposits of the intents not cancelled and of the
\* Pending burn requests.
C37_DepositsConserved == []C37_Covered /\ [][C37_Step]_vars

\* An intent deposit and a burn deposit of different sizes have both been
\* paid back while another burn deposit is still held.
C37_Witness ==
    /\ call.op \in {"cancelMintIntent", "fulfillBurn", "claimDefault"}
    /\ \E id \in DOMAIN mintIntents : mintIntents[id].cancelled
    /\ \E id \in BurnIds : id < nextBurnId /\ Processed(burnRequests[id])
    /\ burnDepositsHeld > 0
    /\ ethSent["user"] >= 2 * MIN_INTENT_DEPOSIT + 1

\* ---------------------------------------------------------------- C38
\* C38: a successful requestBurn against an LP whose ratio is at least
\* LIQUIDATION_THRESHOLD never leaves that LP with backedAmount > 0 and a
\* ratio below LIQUIDATION_THRESHOLD, and never lowers the ratio of an LP
\* that was below SAFE_RATIO.
C38_Step ==
    \A lp \in Addr :
        (call'.op = "requestBurn" /\ call'.a.lp = lp) =>
            /\ getLPRatio(lp) >= LIQUIDATION_THRESHOLD =>
                  ~(/\ lpInfo'[lp].backedAmount > 0
                    /\ getLPRatio(lp)' < LIQUIDATION_THRESHOLD)
            /\ getLPRatio(lp) < SAFE_RATIO =>
                  getLPRatio(lp)' >= getLPRatio(lp)

C38_BurnKeepsLPSafe == [][C38_Step]_vars

\* ---------------------------------------------------------------- C39
\* The recorded intents whose id a createMintIntent in the current block
\* would compute again.
SameBlockIntents == {id \in DOMAIN mintIntents : id[4] = now}

C39_Guard ==
    /\ \A id \in SameBlockIntents, v \in EscrowDeposits \cup {0} :
          /\ createMintIntentRevert(id[1], id[2], id[3], v) # ""
          /\ ( /\ lpInfo[id[2]].active
               /\ v >= MIN_INTENT_DEPOSIT
               /\ id[3] >= minMintAmount(id[2]) )
                => createMintIntentRevert(id[1], id[2], id[3], v)
                      = "Intent exists"
    \* an id is the one computed from its record, so two different
    \* (user, lp, expectedAmount, createdAt) never share one
    /\ \A id \in DOMAIN mintIntents :
          LET intent == mintIntents[id]
          IN /\ intent.user # ZeroAddr
             /\ id = intentIdOf(intent.user, intent.lp,
                                intent.expectedAmount, intent.createdAt)

C39_Step ==
    call'.op = "createMintIntent" =>
        /\ call'.a.intentId \notin DOMAIN mintIntents
        /\ \A id \in DOMAIN mintIntents :
              id \in DOMAIN mintIntents' /\ mintIntents'[id] = mintIntents[id]
        /\ ethBalance' = ethBalance + call'.a.value

RECURSIVE Pow2(_)
Pow2(n) == IF n = 0 THEN 1 ELSE 2 * Pow2(n - 1)

\* C40: for a path of length n the result of verifyMerkleProof for index
\* i is the result for i mod 2^n, and with an empty path the result is
\* true exactly when leaf equals root, whatever the index.
C40_IndexHighBitsFree ==
    (lib.fn = "merkle" /\ lib.stage = "probed") =>
        /\ lib.result = verifyMerkleProof(lib.leaf, lib.root, lib.proof,
                                          lib.at % Pow2(Len(lib.proof)))
        /\ lib.proof = << >> => (lib.result <=> lib.leaf = lib.root)

\* The path computed for a leaf of a three-leaf tree is accepted for an
\* index beyond the tree that has the same low bits.
C40_Witness ==
    /\ lib.fn = "merkle" /\ lib.stage = "probed" /\ lib.tampered = ""
    /\ Len(lib.leaves) = 3 /\ Len(lib.proof) = 2
    /\ lib.at >= Pow2(Len(lib.proof))
    /\ lib.at % Pow2(Len(lib.proof)) = lib.index
    /\ lib.result

====
